---------------------------- MODULE Spec2Model ----------------------------
(***************************************************************************)
(* A model of document_tagger.py: the rule-based classifier that maps a    *)
(* document (title, text) to a project, a document type, a list of         *)
(* keywords verified against the text, and a summary.                      *)
(*                                                                         *)
(* Strings are sequences of Unicode code points (Python's str); the text   *)
(* each literal stands for is kept in a comment beside it.  The character   *)
(* classes below are those of Python 3 (str.isspace, re's \s \w \d,        *)
(* string.punctuation), stated for the characters the model uses: ASCII,   *)
(* the CJK ideographs U+4E00..U+9FFF, the full-width punctuation of the    *)
(* source's patterns, and the ideographic space U+3000.                    *)
(***************************************************************************)
EXTENDS Integers, Sequences, FiniteSets, TLC

VARIABLES
    file,             \* the file being processed: stem, suffix, readable, content
    HAS_DOCX,         \* whether python-docx was importable
    HAS_JIEBA,        \* whether jieba was importable
    jieba_mode,       \* which segmentation jieba produces (see jieba_extract_tags)
    document_types,   \* DocumentTagger.document_types
    project_keywords, \* DocumentTagger.project_keywords
    pc,               \* the position of the caller: before a call, or after it
    title,            \* the document's title (the file's stem)
    text,             \* the document's text, without its trailing padding
    pad,              \* the number of newline characters that end the text
    project,          \* identify_project's result
    via,              \* the step of identify_project that returned
    doc_type,         \* classify_document_type's result
    keywords,         \* extract_keywords' result
    summary,          \* generate_content_summary's result
    result,           \* the record process_document returns
    invoked,          \* the components called by the last operation
    history,          \* the files processed so far, each with its record
    counted_length,   \* the argument of _get_keywords_count
    keywords_count,   \* _get_keywords_count's result
    directory,        \* the entries of the directory process_directory reads
    results,          \* the list process_directory returns
    reported,         \* the rows of the table main prints for the results
    csv_file,         \* document_tags.csv: "absent", or its header and rows
    tree,             \* the files and directories under the mover's base path
    mover_error       \* the exception move_documents_by_csv raised, if any

\* the state of DocumentTagger and of a caller of its methods
taggerVars == <<file, HAS_DOCX, HAS_JIEBA, jieba_mode, document_types,
                project_keywords, pc, title, text, pad, project, via, doc_type,
                keywords, summary, result, invoked, history>>

\* the state of the functions around the tagger
toolVars == <<counted_length, keywords_count, directory, results, reported,
              csv_file, tree, mover_error>>

vars == <<taggerVars, toolVars>>

-----------------------------------------------------------------------------
(* Bounds of the model *)

\* the longest text enumerated over KwAlphabet
MaxKwLen == 5

\* the most pieces a title is put together from
MaxTitlePieces == 2

\* the most pieces a text of the document-type specification is put together from
MaxTypePieces == 2

\* the most lines of a text of the summary specification
MaxParagraphs == 2

\* the longest whitespace-only text enumerated
MaxBlankLen == 2

\* the most documents one DocumentTagger processes
MaxCalls == 3

\* the number of steps of LengthStep up to the greatest length counted
MaxLengthSteps == 640

\* the most records of a batch handed to save_results_to_csv
MaxBatch == 2

\* the most entries of a directory
MaxEntries == 3

\* the most words of a text of the inference specification
MaxInferPieces == 2

-----------------------------------------------------------------------------
(* Character classes *)

\* str.isspace(), and \s of a str pattern
Whitespace == {9, 10, 11, 12, 13, 28, 29, 30, 31, 32, 133, 160, 12288}

IsSpace(c) == c \in Whitespace

\* \d of a str pattern; str.isdigit() agrees on these characters
IsDigit(c) == c \in 48..57 \/ c \in 65296..65305

\* \w of a str pattern: alphanumerics and the underscore
IsWordChar(c) ==
    \/ c \in 48..57 \/ c \in 65..90 \/ c \in 97..122 \/ c = 95
    \/ c \in 19968..40959 \/ c \in 65296..65305

\* [一-鿿]
IsCJK(c) == c \in 19968..40959

\* string.punctuation
AsciiPunctuation == (33..47) \cup (58..64) \cup (91..96) \cup (123..126)

\* str.lower() on one character
LowerChar(c) == IF c \in 65..90 THEN c + 32 ELSE c

-----------------------------------------------------------------------------
(* Python's str and re operations *)

\* str.lower()
Lower(s) == [i \in 1..Len(s) |-> LowerChar(s[i])]

\* e(v) written Once({e(x) : x \in {v}}): x names the value of v, which is
\* computed a single time however often e uses it
Once(S) == CHOOSE x \in S : TRUE

\* s[:n]
Prefix(s, n) == SubSeq(s, 1, IF Len(s) < n THEN Len(s) ELSE n)

\* s[n:] counted from 1: the characters from position n on
From(s, n) == SubSeq(s, n, Len(s))

\* sub in s, at position i
OccursAt(sub, s, i) ==
    /\ i >= 1
    /\ i + Len(sub) - 1 <= Len(s)
    /\ \A k \in 1..Len(sub) : s[i + k - 1] = sub[k]

\* sub in s
Contains(sub, s) == \E i \in 1..(Len(s) - Len(sub) + 1) : OccursAt(sub, s, i)

\* s.count(sub) for a non-empty sub: occurrences that do not overlap, from the left
RECURSIVE CountFrom(_, _, _)
CountFrom(sub, s, i) ==
    IF i + Len(sub) - 1 > Len(s) THEN 0
    ELSE IF OccursAt(sub, s, i) THEN 1 + CountFrom(sub, s, i + Len(sub))
    ELSE CountFrom(sub, s, i + 1)

Count(sub, s) == CountFrom(sub, s, 1)

\* the length of the longest prefix of s made of characters of cls
LeadIn(s, cls) ==
    IF \A i \in 1..Len(s) : s[i] \in cls THEN Len(s)
    ELSE (CHOOSE i \in 1..Len(s) :
            s[i] \notin cls /\ \A j \in 1..(i - 1) : s[j] \in cls) - 1

\* the length of the longest prefix of s made of characters outside cls
LeadOut(s, cls) ==
    IF \A i \in 1..Len(s) : s[i] \notin cls THEN Len(s)
    ELSE (CHOOSE i \in 1..Len(s) :
            s[i] \in cls /\ \A j \in 1..(i - 1) : s[j] \notin cls) - 1

\* s.strip(chars)
StripChars(s, cls) ==
    IF \A i \in 1..Len(s) : s[i] \in cls THEN <<>>
    ELSE LET a == CHOOSE i \in 1..Len(s) :
                    s[i] \notin cls /\ \A j \in 1..(i - 1) : s[j] \in cls
             b == CHOOSE i \in 1..Len(s) :
                    s[i] \notin cls /\ \A j \in (i + 1)..Len(s) : s[j] \in cls
         IN  SubSeq(s, a, b)

\* s.strip()
Strip(s) == StripChars(s, Whitespace)

\* s.isdigit()
IsDigitStr(s) == Len(s) > 0 /\ \A i \in 1..Len(s) : IsDigit(s[i])

\* s.isspace()
IsSpaceStr(s) == Len(s) > 0 /\ \A i \in 1..Len(s) : IsSpace(s[i])

\* s.split(): the maximal runs of characters that are not whitespace
RECURSIVE Split(_)
Split(s) ==
    IF s = <<>> THEN <<>>
    ELSE IF IsSpace(Head(s)) THEN Split(Tail(s))
    ELSE LET n == LeadOut(s, Whitespace)
         IN  <<SubSeq(s, 1, n)>> \o Split(From(s, n + 1))

\* s.split(sep) for a one-character sep: empty pieces are kept
RECURSIVE SplitAt(_, _)
SplitAt(s, sep) ==
    LET n == LeadOut(s, {sep})
    IN  IF n = Len(s) THEN <<s>>
        ELSE <<SubSeq(s, 1, n)>> \o SplitAt(From(s, n + 2), sep)

\* re.sub('[cls]+', ' ', s): every maximal run of cls becomes one space
RECURSIVE ReSubRuns(_, _)
ReSubRuns(s, cls) ==
    IF s = <<>> THEN <<>>
    ELSE IF Head(s) \in cls
         THEN <<32>> \o ReSubRuns(From(s, LeadIn(s, cls) + 1), cls)
         ELSE <<Head(s)>> \o ReSubRuns(Tail(s), cls)

\* s.replace(old, new) for one-character old and new
Replace(s, old, new) == [i \in 1..Len(s) |-> IF s[i] = old THEN new ELSE s[i]]

\* sep.join(parts)
RECURSIVE Join(_, _)
Join(sep, parts) ==
    IF parts = <<>> THEN <<>>
    ELSE IF Len(parts) = 1 THEN parts[1]
    ELSE parts[1] \o sep \o Join(sep, Tail(parts))

\* re.findall('[一-鿿]{2,8}', s): scanning from the left, each match
\* takes as many ideographs as it can, at most 8, and needs at least 2
RECURSIVE FindAllCJK(_)
FindAllCJK(s) ==
    IF s = <<>> THEN <<>>
    ELSE LET run == LeadIn(s, 19968..40959)
             n   == IF run > 8 THEN 8 ELSE run
         IN  IF n >= 2 THEN <<SubSeq(s, 1, n)>> \o FindAllCJK(From(s, n + 1))
             ELSE FindAllCJK(Tail(s))

-----------------------------------------------------------------------------
(* KeywordExtractor *)

\* a variant of _get_keywords_count whose second step reaches up to length 1000
KeywordsCountStepTo1000(text_length) ==
    IF text_length < 200 THEN 2
    ELSE IF text_length < 1000 THEN 3
    ELSE IF text_length < 2000 THEN 8
    ELSE IF text_length < 3000 THEN 10
    ELSE IF text_length < 5000 THEN 12
    ELSE IF text_length < 8000 THEN 15
    ELSE IF text_length < 12000 THEN 18
    ELSE IF text_length < 20000 THEN 22
    ELSE LET n == (text_length \div 1000) + 3 IN IF n < 30 THEN n ELSE 30

\* _get_keywords_count
_get_keywords_count(text_length) ==
    IF text_length < 200 THEN 2
    ELSE IF text_length < 500 THEN 3
    ELSE IF text_length < 1000 THEN 5
    ELSE IF text_length < 2000 THEN 8
    ELSE IF text_length < 3000 THEN 10
    ELSE IF text_length < 5000 THEN 12
    ELSE IF text_length < 8000 THEN 15
    ELSE IF text_length < 12000 THEN 18
    ELSE IF text_length < 20000 THEN 22
    ELSE LET n == (text_length \div 1000) + 3 IN IF n < 30 THEN n ELSE 30

\* the character class of the first re.sub of _extract_verified_keywords_from_text
ChineseSeparators ==
    {65292, 12290, 65281, 65311, 65307, 65306, 34, 65288, 65289, 12304, 12305, 91, 93, 123, 125, 60, 62, 12298, 12299, 12289} (* ，。！？；："（）【】[]{}<>《》、 *) \cup Whitespace

\* the character class of the second re.sub
LatinSeparators == {46, 44, 33, 63, 59, 58, 34, 39, 40, 41, 91, 93, 123, 125, 60, 62} (* .,!?;:"'()[]{}<> *) \cup Whitespace

\* words1 + words2 + chinese_words
candidate_words(t) ==
    Split(ReSubRuns(t, ChineseSeparators))
        \o Split(ReSubRuns(t, LatinSeparators))
        \o FindAllCJK(t)

\* word.strip(string.punctuation + ' \t\n')
StripWord(word) == StripChars(word, AsciiPunctuation \cup {32, 9, 10})

WebWords == {<<104, 116, 109, 108>> (* "html" *), <<104, 116, 116, 112>> (* "http" *), <<104, 116, 116, 112, 115>> (* "https" *), <<119, 119, 119>> (* "www" *)}

\* the basic filter conditions of the candidate loop
BasicFilter(word) ==
    /\ 2 <= Len(word) /\ Len(word) <= 8
    /\ ~IsDigitStr(word)
    /\ Strip(word) # <<>>
    /\ ~IsSpaceStr(word)
    /\ Lower(word) \notin WebWords

\* _absolute_strict_verify_word_in_text
_absolute_strict_verify_word_in_text(word, t) == Contains(word, t)

\* collections.Counter as the sequence of its items in insertion order
CounterAdd(counter, word) ==
    IF \E i \in 1..Len(counter) : counter[i].word = word
    THEN [i \in 1..Len(counter) |->
            IF counter[i].word = word
            THEN [word |-> word, count |-> counter[i].count + 1]
            ELSE counter[i]]
    ELSE Append(counter, [word |-> word, count |-> 1])

\* a variant of CountedWord that counts a word under its lower-cased form
CountedWordLowered(word) == Lower(word)

\* the key under which the candidate loop counts a verified word
CountedWord(word) == word

\* the candidate loop: strip, filter, verify, count
RECURSIVE CountCandidates(_, _, _)
CountCandidates(cands, t, counter) ==
    IF cands = <<>> THEN counter
    ELSE LET word == StripWord(Head(cands))
         IN  CountCandidates(Tail(cands), t,
                IF BasicFilter(word) /\ _absolute_strict_verify_word_in_text(word, t)
                THEN CounterAdd(counter, CountedWord(word))
                ELSE counter)

word_count(t) == CountCandidates(candidate_words(t), t, <<>>)

\* sorted(items, key=..., reverse=True), keys[i] being the key of items[i]:
\* by descending key, items of equal key in their original order (sorted()
\* is stable)
StableDescending(items, keys) ==
    LET before(i, j) ==
            \/ keys[i] > keys[j]
            \/ keys[i] = keys[j] /\ i < j
        rank(i) == Cardinality({j \in 1..Len(items) : before(j, i)}) + 1
    IN  [r \in 1..Len(items) |-> items[CHOOSE i \in 1..Len(items) : rank(i) = r]]

\* a variant of most_common that puts items of equal count latest first
most_common_latest_first(counter) ==
    LET reversed == [i \in 1..Len(counter) |-> counter[Len(counter) + 1 - i]]
    IN  StableDescending(reversed, [i \in 1..Len(reversed) |-> reversed[i].count])

\* Counter.most_common(): by descending count, items of equal count in
\* insertion order
most_common(counter) ==
    StableDescending(counter, [i \in 1..Len(counter) |-> counter[i].count])

common_words ==
    { <<30340>> (* "的" *), <<20102>> (* "了" *), <<22312>> (* "在" *), <<21644>> (* "和" *), <<19982>> (* "与" *), <<20026>> (* "为" *), <<26159>> (* "是" *), <<26377>> (* "有" *), <<21450>> (* "及" *), <<31561>> (* "等" *),
      <<21487, 20197>> (* "可以" *), <<36827, 34892>> (* "进行" *), <<36890, 36807>> (* "通过" *), <<25110, 32773>> (* "或者" *), <<22914, 26524>> (* "如果" *), <<20294, 26159>> (* "但是" *), <<22240, 20026>> (* "因为" *), <<25152, 20197>> (* "所以" *),
      <<36825, 20010>> (* "这个" *), <<37027, 20010>> (* "那个" *), <<25105, 20204>> (* "我们" *), <<20182, 20204>> (* "他们" *), <<22905, 20204>> (* "她们" *), <<23427, 20204>> (* "它们" *), <<20043, 21518>> (* "之后" *), <<20043, 21069>> (* "之前" *),
      <<20160, 20040>> (* "什么" *), <<24590, 20040>> (* "怎么" *), <<21738, 37324>> (* "哪里" *), <<20160, 20040, 26102, 20505>> (* "什么时候" *), <<20026, 20160, 20040>> (* "为什么" *), <<19968, 20010>> (* "一个" *), <<19968, 31181>> (* "一种" *),
      <<19968, 20123>> (* "一些" *), <<25152, 26377>> (* "所有" *), <<27599, 20010>> (* "每个" *), <<22240, 27492>> (* "因此" *), <<28982, 21518>> (* "然后" *), <<29616, 22312>> (* "现在" *), <<24050, 32463>> (* "已经" *), <<20173, 28982>> (* "仍然" *),
      <<21482, 26159>> (* "只是" *), <<20063, 26159>> (* "也是" *), <<36824, 26159>> (* "还是" *), <<25110, 26159>> (* "或是" *), <<23601, 26159>> (* "就是" *), <<19981, 26159>> (* "不是" *), <<27809, 26377>> (* "没有" *), <<36825, 20123>> (* "这些" *),
      <<37027, 20123>> (* "那些" *) }

\* a variant of HasRoom that lets the list grow one past num_keywords
HasRoomForOneMore(result_keywords, num_keywords) == Len(result_keywords) <= num_keywords

\* len(result_keywords) < num_keywords
HasRoom(result_keywords, num_keywords) == Len(result_keywords) < num_keywords

\* the selection loop over most_common()
RECURSIVE SelectKeywords(_, _, _)
SelectKeywords(items, num_keywords, result_keywords) ==
    IF items = <<>> THEN result_keywords
    ELSE SelectKeywords(Tail(items), num_keywords,
            IF /\ Head(items).word \notin common_words
               /\ Head(items).count >= 1
               /\ HasRoom(result_keywords, num_keywords)
            THEN Append(result_keywords, Head(items).word)
            ELSE result_keywords)

\* _extract_verified_keywords_from_text
_extract_verified_keywords_from_text(t, num_keywords) ==
    SelectKeywords(most_common(word_count(t)), num_keywords, <<>>)

\* extract_keywords, on a text that is t followed by p newline characters:
\* trailing whitespace is removed by both substitutions and by split(), and is
\* in no ideograph run, so only len(text) sees it
extract_keywords(t, p) ==
    IF Strip(t) = <<>> THEN <<>>
    ELSE _extract_verified_keywords_from_text(t, _get_keywords_count(Len(t) + p))

-----------------------------------------------------------------------------
(* KeywordCatalogs: the tables DocumentTagger.__init__ builds.  A dict is    *)
(* the sequence of its items in insertion order.                            *)

InitialDocumentTypes == <<
    [name |-> <<38656, 27714, 31867, 25991, 26723>> (* "需求类文档" *), keywords |-> <<
        <<38656, 27714>> (* "需求" *), <<21151, 33021, 38656, 27714>> (* "功能需求" *), <<19994, 21153, 38656, 27714>> (* "业务需求" *), <<20135, 21697, 38656, 27714>> (* "产品需求" *), <<80, 82, 68>> (* "PRD" *), <<38656, 27714, 20998, 26512>> (* "需求分析" *),
        <<114, 101, 113, 117, 105, 114, 101, 109, 101, 110, 116>> (* "requirement" *), <<102, 101, 97, 116, 117, 114, 101>> (* "feature" *), <<29992, 25143, 38656, 27714>> (* "用户需求" *), <<21151, 33021, 35268, 26684>> (* "功能规格" *), <<38656, 27714, 35828, 26126>> (* "需求说明" *) >>],
    [name |-> <<25216, 26415, 31867, 25991, 26723>> (* "技术类文档" *), keywords |-> <<
        <<25216, 26415>> (* "技术" *), <<24320, 21457>> (* "开发" *), <<32534, 31243>> (* "编程" *), <<20195, 30721>> (* "代码" *), <<23454, 29616>> (* "实现" *), <<26550, 26500>> (* "架构" *), <<35774, 35745>> (* "设计" *), <<65, 80, 73>> (* "API" *),
        <<100, 101, 118, 101, 108, 111, 112, 109, 101, 110, 116>> (* "development" *), <<99, 111, 100, 105, 110, 103>> (* "coding" *), <<25216, 26415, 26041, 26696>> (* "技术方案" *), <<31995, 32479, 35774, 35745>> (* "系统设计" *), <<25509, 21475, 25991, 26723>> (* "接口文档" *),
        <<25968, 25454, 24211>> (* "数据库" *), <<31639, 27861>> (* "算法" *), <<26694, 26550>> (* "框架" *), <<25216, 26415, 35268, 33539>> (* "技术规范" *) >>],
    [name |-> <<27979, 35797, 31867, 25991, 26723>> (* "测试类文档" *), keywords |-> <<
        <<27979, 35797>> (* "测试" *), <<36136, 37327>> (* "质量" *), <<81, 65>> (* "QA" *), <<27979, 35797, 29992, 20363>> (* "测试用例" *), <<27979, 35797, 35745, 21010>> (* "测试计划" *), <<116, 101, 115, 116, 105, 110, 103>> (* "testing" *),
        <<27979, 35797, 25253, 21578>> (* "测试报告" *), <<32570, 38519>> (* "缺陷" *), <<98, 117, 103>> (* "bug" *), <<36136, 37327, 20445, 35777>> (* "质量保证" *), <<39564, 25910, 27979, 35797>> (* "验收测试" *), <<24615, 33021, 27979, 35797>> (* "性能测试" *) >>],
    [name |-> <<36816, 32500, 31867, 25991, 26723>> (* "运维类文档" *), keywords |-> <<
        <<36816, 32500>> (* "运维" *), <<37096, 32626>> (* "部署" *), <<30417, 25511>> (* "监控" *), <<26381, 21153, 22120>> (* "服务器" *), <<31995, 32479, 36816, 32500>> (* "系统运维" *), <<100, 101, 118, 111, 112, 115>> (* "devops" *),
        <<100, 101, 112, 108, 111, 121>> (* "deploy" *), <<36816, 32500, 25163, 20876>> (* "运维手册" *), <<25925, 38556, 22788, 29702>> (* "故障处理" *), <<22791, 20221>> (* "备份" *), <<23433, 20840>> (* "安全" *), <<37197, 32622, 31649, 29702>> (* "配置管理" *) >>],
    [name |-> <<30693, 35782, 31867, 25991, 26723>> (* "知识类文档" *), keywords |-> <<
        <<30693, 35782>> (* "知识" *), <<25945, 31243>> (* "教程" *), <<22521, 35757>> (* "培训" *), <<35828, 26126>> (* "说明" *), <<25351, 21335>> (* "指南" *), <<25163, 20876>> (* "手册" *), <<20171, 32461>> (* "介绍" *),
        <<23398, 20064>> (* "学习" *), <<20998, 20139>> (* "分享" *), <<24635, 32467>> (* "总结" *), <<32463, 39564>> (* "经验" *), <<26368, 20339, 23454, 36341>> (* "最佳实践" *), <<35268, 33539>> (* "规范" *), <<26631, 20934>> (* "标准" *) >>],
    [name |-> <<31649, 29702, 31867, 25991, 26723>> (* "管理类文档" *), keywords |-> <<
        <<31649, 29702>> (* "管理" *), <<39033, 30446, 31649, 29702>> (* "项目管理" *), <<35745, 21010>> (* "计划" *), <<27969, 31243>> (* "流程" *), <<35268, 33539>> (* "规范" *), <<109, 97, 110, 97, 103, 101, 109, 101, 110, 116>> (* "management" *),
        <<112, 114, 111, 99, 101, 115, 115>> (* "process" *), <<20250, 35758>> (* "会议" *), <<20915, 31574>> (* "决策" *), <<25253, 21578>> (* "报告" *), <<24635, 32467>> (* "总结" *), <<21046, 24230>> (* "制度" *), <<25919, 31574>> (* "政策" *) >>] >>

InitialProjectKeywords == <<
    [name |-> <<36229, 21697, 20013, 24515, 39033, 30446>> (* "超品中心项目" *), keywords |-> <<<<36229, 21697>> (* "超品" *), <<36229, 32423, 21697, 29260>> (* "超级品牌" *), <<21697, 29260, 20013, 24515>> (* "品牌中心" *), <<21697, 29260, 36816, 33829>> (* "品牌运营" *)>>],
    [name |-> <<30452, 25773, 19994, 21153, 39033, 30446>> (* "直播业务项目" *), keywords |-> <<<<30452, 25773>> (* "直播" *), <<20027, 25773>> (* "主播" *), <<30452, 25773, 38388>> (* "直播间" *), <<30452, 25773, 36816, 33829>> (* "直播运营" *), <<30452, 25773, 24179, 21488>> (* "直播平台" *)>>],
    [name |-> <<30005, 21830, 31995, 32479, 39033, 30446>> (* "电商系统项目" *), keywords |-> <<<<35746, 21333>> (* "订单" *), <<21830, 21697>> (* "商品" *), <<36141, 29289, 36710>> (* "购物车" *), <<25903, 20184>> (* "支付" *), <<29289, 27969>> (* "物流" *), <<79, 77, 83>> (* "OMS" *)>>],
    [name |-> <<36130, 21153, 31649, 29702, 39033, 30446>> (* "财务管理项目" *), keywords |-> <<<<36130, 21153>> (* "财务" *), <<20250, 35745>> (* "会计" *), <<25104, 26412>> (* "成本" *), <<39044, 31639>> (* "预算" *), <<25910, 20837>> (* "收入" *), <<25903, 20986>> (* "支出" *), <<32467, 31639>> (* "结算" *)>>],
    [name |-> <<33829, 38144, 25512, 24191, 39033, 30446>> (* "营销推广项目" *), keywords |-> <<<<33829, 38144>> (* "营销" *), <<25512, 24191>> (* "推广" *), <<24191, 21578>> (* "广告" *), <<27963, 21160>> (* "活动" *), <<29992, 25143, 22686, 38271>> (* "用户增长" *), <<36716, 21270>> (* "转化" *)>>],
    [name |-> <<20869, 23481, 36816, 33829, 39033, 30446>> (* "内容运营项目" *), keywords |-> <<<<20869, 23481>> (* "内容" *), <<21019, 20316>> (* "创作" *), <<35270, 39057>> (* "视频" *), <<22270, 29255>> (* "图片" *), <<25991, 31456>> (* "文章" *), <<21019, 24847>> (* "创意" *)>>],
    [name |-> <<29992, 25143, 36816, 33829, 39033, 30446>> (* "用户运营项目" *), keywords |-> <<<<29992, 25143, 36816, 33829>> (* "用户运营" *), <<31169, 22495>> (* "私域" *), <<23458, 26381>> (* "客服" *), <<29992, 25143, 31649, 29702>> (* "用户管理" *), <<23458, 25143, 26381, 21153>> (* "客户服务" *)>>],
    [name |-> <<25216, 26415, 24179, 21488, 39033, 30446>> (* "技术平台项目" *), keywords |-> <<<<24179, 21488>> (* "平台" *), <<31995, 32479>> (* "系统" *), <<26550, 26500>> (* "架构" *), <<25216, 26415>> (* "技术" *), <<24320, 21457>> (* "开发" *), <<20135, 30740>> (* "产研" *)>>],
    [name |-> <<25968, 25454, 20998, 26512, 39033, 30446>> (* "数据分析项目" *), keywords |-> <<<<25968, 25454>> (* "数据" *), <<20998, 26512>> (* "分析" *), <<32479, 35745>> (* "统计" *), <<25351, 26631>> (* "指标" *), <<25253, 34920>> (* "报表" *), <<25968, 25454, 24211>> (* "数据库" *)>>],
    [name |-> <<31227, 21160, 31471, 39033, 30446>> (* "移动端项目" *), keywords |-> <<<<31227, 21160>> (* "移动" *), <<65, 80, 80>> (* "APP" *), <<23567, 31243, 24207>> (* "小程序" *), <<31227, 21160, 31471>> (* "移动端" *), <<105, 79, 83>> (* "iOS" *), <<65, 110, 100, 114, 111, 105, 100>> (* "Android" *)>>],
    [name |-> <<36816, 32500, 20445, 38556, 39033, 30446>> (* "运维保障项目" *), keywords |-> <<<<36816, 32500>> (* "运维" *), <<37096, 32626>> (* "部署" *), <<30417, 25511>> (* "监控" *), <<26381, 21153, 22120>> (* "服务器" *), <<36816, 32500, 20445, 38556>> (* "运维保障" *)>>],
    [name |-> <<20154, 21147, 36164, 28304, 39033, 30446>> (* "人力资源项目" *), keywords |-> <<<<20154, 21147>> (* "人力" *), <<72, 82>> (* "HR" *), <<25307, 32856>> (* "招聘" *), <<22521, 35757>> (* "培训" *), <<32489, 25928>> (* "绩效" *), <<34218, 37228>> (* "薪酬" *), <<21592, 24037>> (* "员工" *)>>],
    [name |-> <<36136, 37327, 31649, 25511, 39033, 30446>> (* "质量管控项目" *), keywords |-> <<<<36136, 37327>> (* "质量" *), <<21697, 25511>> (* "品控" *), <<21697, 36136, 31649, 29702>> (* "品质管理" *), <<36136, 37327, 20445, 35777>> (* "质量保证" *), <<27979, 35797>> (* "测试" *)>>],
    [name |-> <<27969, 31243, 20248, 21270, 39033, 30446>> (* "流程优化项目" *), keywords |-> <<<<27969, 31243>> (* "流程" *), <<20248, 21270>> (* "优化" *), <<35268, 33539>> (* "规范" *), <<26631, 20934, 21270>> (* "标准化" *), <<21046, 24230>> (* "制度" *), <<31649, 29702>> (* "管理" *)>>] >>

\* any(word in s for word in words)
AnyIn(words, s) == \E i \in 1..Len(words) : Contains(words[i], s)

\* a variant of FirstMax that takes the last item of the greatest score
LastMax(items) ==
    items[CHOOSE i \in 1..Len(items) :
            /\ \A j \in 1..Len(items) : items[j].score <= items[i].score
            /\ \A j \in (i + 1)..Len(items) : items[j].score < items[i].score]

\* max(d, key=d.get) over a dict given as its items: the first item of the
\* greatest score
FirstMax(items) ==
    items[CHOOSE i \in 1..Len(items) :
            /\ \A j \in 1..Len(items) : items[j].score <= items[i].score
            /\ \A j \in 1..(i - 1) : items[j].score < items[i].score]

\* the keyword score both classifiers compute: occurrences in the combined
\* text, plus title_weight for each keyword the title holds
RECURSIVE KeywordScore(_, _, _, _)
KeywordScore(kws, combined_text, title_lower, title_weight) ==
    IF kws = <<>> THEN 0
    ELSE LET keyword_lower == Lower(Head(kws))
         IN  Count(keyword_lower, combined_text)
             + (IF Contains(keyword_lower, title_lower) THEN title_weight ELSE 0)
             + KeywordScore(Tail(kws), combined_text, title_lower, title_weight)

\* the dict of positive scores, in the catalog's order
RECURSIVE PositiveScores(_, _, _, _)
PositiveScores(catalog, combined_text, title_lower, title_weight) ==
    IF catalog = <<>> THEN <<>>
    ELSE LET score == KeywordScore(Head(catalog).keywords, combined_text,
                                   title_lower, title_weight)
         IN  (IF score > 0
              THEN <<[name |-> Head(catalog).name, score |-> score]>>
              ELSE <<>>)
             \o PositiveScores(Tail(catalog), combined_text, title_lower, title_weight)

-----------------------------------------------------------------------------
(* DocumentTypeClassifier *)

\* title + " " + text, lower-cased
CombinedText(t, ttl) == Lower(ttl \o <<32>> \o t)

\* classify_document_type
classify_document_type(types, t, ttl) ==
    Once({IF type_scores # <<>> THEN FirstMax(type_scores).name ELSE <<30693, 35782, 31867, 25991, 26723>> (* "知识类文档" *) :
            type_scores \in {PositiveScores(types, CombinedText(t, ttl), Lower(ttl), 5)}})

-----------------------------------------------------------------------------
(* ProjectClassifier *)

\* a variant of TitleTiers whose first two branches are exchanged
TitleTiersFinanceFirst(title_lower, onboarding_words) ==
    IF AnyIn(<<<<36130, 21153>> (* "财务" *), <<32467, 31639>> (* "结算" *), <<19994, 32489>> (* "业绩" *), <<27611, 21033>> (* "毛利" *)>>, title_lower) THEN <<36130, 21153, 31649, 29702, 39033, 30446>> (* "财务管理项目" *)
    ELSE IF AnyIn(<<<<36229, 21697, 20013, 24515>> (* "超品中心" *), <<36229, 21697>> (* "超品" *)>>, title_lower) THEN <<36229, 21697, 20013, 24515, 39033, 30446>> (* "超品中心项目" *)
    ELSE IF AnyIn(onboarding_words, title_lower) THEN <<20154, 21147, 36164, 28304, 39033, 30446>> (* "人力资源项目" *)
    ELSE IF AnyIn(<<<<37096, 38376>> (* "部门" *), <<32452, 32455>> (* "组织" *), <<22242, 38431>> (* "团队" *), <<32844, 36131>> (* "职责" *)>>, title_lower) THEN <<32452, 32455, 31649, 29702, 39033, 30446>> (* "组织管理项目" *)
    ELSE IF AnyIn(<<<<21830, 23478>> (* "商家" *), <<26143, 36873>> (* "星选" *), <<36965, 26395, 26143, 36873>> (* "遥望星选" *)>>, title_lower) THEN <<36229, 21697, 20013, 24515, 39033, 30446>> (* "超品中心项目" *)
    ELSE IF AnyIn(<<<<25991, 26723>> (* "文档" *), <<20998, 31867>> (* "分类" *), <<25910, 38598>> (* "收集" *), <<30693, 35782>> (* "知识" *)>>, title_lower) THEN <<30693, 35782, 31649, 29702, 39033, 30446>> (* "知识管理项目" *)
    ELSE <<>>

\* the if/elif chain over the lower-cased title; <<>> when no branch is taken
TitleTiers(title_lower, onboarding_words) ==
    IF AnyIn(<<<<36229, 21697, 20013, 24515>> (* "超品中心" *), <<36229, 21697>> (* "超品" *)>>, title_lower) THEN <<36229, 21697, 20013, 24515, 39033, 30446>> (* "超品中心项目" *)
    ELSE IF AnyIn(<<<<36130, 21153>> (* "财务" *), <<32467, 31639>> (* "结算" *), <<19994, 32489>> (* "业绩" *), <<27611, 21033>> (* "毛利" *)>>, title_lower) THEN <<36130, 21153, 31649, 29702, 39033, 30446>> (* "财务管理项目" *)
    ELSE IF AnyIn(onboarding_words, title_lower) THEN <<20154, 21147, 36164, 28304, 39033, 30446>> (* "人力资源项目" *)
    ELSE IF AnyIn(<<<<37096, 38376>> (* "部门" *), <<32452, 32455>> (* "组织" *), <<22242, 38431>> (* "团队" *), <<32844, 36131>> (* "职责" *)>>, title_lower) THEN <<32452, 32455, 31649, 29702, 39033, 30446>> (* "组织管理项目" *)
    ELSE IF AnyIn(<<<<21830, 23478>> (* "商家" *), <<26143, 36873>> (* "星选" *), <<36965, 26395, 26143, 36873>> (* "遥望星选" *)>>, title_lower) THEN <<36229, 21697, 20013, 24515, 39033, 30446>> (* "超品中心项目" *)
    ELSE IF AnyIn(<<<<25991, 26723>> (* "文档" *), <<20998, 31867>> (* "分类" *), <<25910, 38598>> (* "收集" *), <<30693, 35782>> (* "知识" *)>>, title_lower) THEN <<30693, 35782, 31649, 29702, 39033, 30446>> (* "知识管理项目" *)
    ELSE <<>>

\* re.sub('[vV]?\d+\.?\d*', '', s): at each position, an optional v, the
\* digits, an optional dot and the digits after it are dropped
RECURSIVE StripVersions(_)
StripVersions(s) ==
    IF s = <<>> THEN <<>>
    ELSE LET v == IF Head(s) \in {118, 86} (* vV *) /\ Len(s) >= 2 /\ IsDigit(s[2]) THEN 1 ELSE 0
             rest == From(s, v + 1)
             Digits == (48..57) \cup (65296..65305)
             d1 == LeadIn(rest, Digits)
             afterDigits == From(rest, d1 + 1)
             dot == IF afterDigits # <<>> /\ Head(afterDigits) = 46 THEN 1 ELSE 0
             d2 == LeadIn(From(afterDigits, dot + 1), Digits)
         IN  IF d1 >= 1 THEN StripVersions(From(s, v + d1 + dot + d2 + 1))
             ELSE <<Head(s)>> \o StripVersions(Tail(s))

standardization_map == <<
    [key |-> <<36229, 21697, 20013, 24515>> (* "超品中心" *), name |-> <<36229, 21697, 20013, 24515, 39033, 30446>> (* "超品中心项目" *)],
    [key |-> <<36229, 21697>> (* "超品" *),     name |-> <<36229, 21697, 20013, 24515, 39033, 30446>> (* "超品中心项目" *)],
    [key |-> <<36130, 21153>> (* "财务" *),     name |-> <<36130, 21153, 31649, 29702, 39033, 30446>> (* "财务管理项目" *)],
    [key |-> <<36130, 21153, 31995, 32479>> (* "财务系统" *), name |-> <<36130, 21153, 31649, 29702, 39033, 30446>> (* "财务管理项目" *)],
    [key |-> <<36130, 21153, 19987, 39033>> (* "财务专项" *), name |-> <<36130, 21153, 31649, 29702, 39033, 30446>> (* "财务管理项目" *)],
    [key |-> <<26032, 20154>> (* "新人" *),     name |-> <<20154, 21147, 36164, 28304, 39033, 30446>> (* "人力资源项目" *)],
    [key |-> <<20837, 32844>> (* "入职" *),     name |-> <<20154, 21147, 36164, 28304, 39033, 30446>> (* "人力资源项目" *)],
    [key |-> <<37096, 38376>> (* "部门" *),     name |-> <<32452, 32455, 31649, 29702, 39033, 30446>> (* "组织管理项目" *)],
    [key |-> <<32452, 32455>> (* "组织" *),     name |-> <<32452, 32455, 31649, 29702, 39033, 30446>> (* "组织管理项目" *)],
    [key |-> <<25991, 26723, 20998, 31867>> (* "文档分类" *), name |-> <<30693, 35782, 31649, 29702, 39033, 30446>> (* "知识管理项目" *)],
    [key |-> <<25991, 26723>> (* "文档" *),     name |-> <<30693, 35782, 31649, 29702, 39033, 30446>> (* "知识管理项目" *)],
    [key |-> <<30693, 35782>> (* "知识" *),     name |-> <<30693, 35782, 31649, 29702, 39033, 30446>> (* "知识管理项目" *)],
    [key |-> <<21830, 23478, 31471>> (* "商家端" *),   name |-> <<36229, 21697, 20013, 24515, 39033, 30446>> (* "超品中心项目" *)],
    [key |-> <<36965, 26395, 26143, 36873>> (* "遥望星选" *), name |-> <<36229, 21697, 20013, 24515, 39033, 30446>> (* "超品中心项目" *)],
    [key |-> <<32972, 26223>> (* "背景" *),     name |-> <<25216, 26415, 24179, 21488, 39033, 30446>> (* "技术平台项目" *)] >>

\* the index of the first table entry whose key the phrase holds, 0 if none
StandardizationEntry(core) ==
    IF \E i \in 1..Len(standardization_map) : Contains(standardization_map[i].key, core)
    THEN CHOOSE i \in 1..Len(standardization_map) :
            /\ Contains(standardization_map[i].key, core)
            /\ \A j \in 1..(i - 1) : ~Contains(standardization_map[j].key, core)
    ELSE 0

\* _standardize_project_name: the three branches after the table all build
\* the same string
_standardize_project_name(project_core) ==
    Once({IF e # 0 THEN standardization_map[e].name ELSE core \o <<39033, 30446>> (* "项目" *) :
            <<core, e>> \in {<<c, StandardizationEntry(c)>> :
                                c \in {Strip(StripVersions(project_core))}}})

\* re.search('(\w{least,}suffix)', s).group(1): the leftmost start from which
\* word characters lead to the suffix, then the longest such match; <<>> when
\* the pattern matches nowhere.  The optional version tail of the pattern is
\* outside the group and can match the empty string.
MatchEnds(s, i, least, suffix) ==
    {p \in (i + least)..Len(s) :
        /\ OccursAt(suffix, s, p)
        /\ \A k \in i..(p - 1) : IsWordChar(s[k])}

SearchWordsThen(s, least, suffix) ==
    IF \E i \in 1..Len(s) : MatchEnds(s, i, least, suffix) # {}
    THEN LET i == CHOOSE a \in 1..Len(s) :
                    /\ MatchEnds(s, a, least, suffix) # {}
                    /\ \A b \in 1..(a - 1) : MatchEnds(s, b, least, suffix) = {}
             p == CHOOSE q \in MatchEnds(s, i, least, suffix) :
                    \A r \in MatchEnds(s, i, least, suffix) : r <= q
         IN  SubSeq(s, i, p + Len(suffix) - 1)
    ELSE <<>>

title_patterns == <<
    [least |-> 0, suffix |-> <<20013, 24515>> (* "中心" *)],
    [least |-> 1, suffix |-> <<31995, 32479>> (* "系统" *)],
    [least |-> 1, suffix |-> <<24179, 21488>> (* "平台" *)],
    [least |-> 1, suffix |-> <<39033, 30446>> (* "项目" *)],
    [least |-> 1, suffix |-> <<19994, 21153>> (* "业务" *)] >>

\* the loop over title_patterns: group(1) of the first pattern that matches
TitleCore(ttl) ==
    LET hit(i) == SearchWordsThen(ttl, title_patterns[i].least, title_patterns[i].suffix)
    IN  IF \E i \in 1..Len(title_patterns) : hit(i) # <<>>
        THEN hit(CHOOSE i \in 1..Len(title_patterns) :
                    hit(i) # <<>> /\ \A j \in 1..(i - 1) : hit(j) = <<>>)
        ELSE <<>>

\* [^\s\n,，。]
NameChars(c) == ~IsSpace(c) /\ c \notin {44, 65292, 12290} (* ,，。 *)

\* the length of the longest prefix of s whose characters are name characters
\* (strict) or only not whitespace, at most most
RunLength(s, strict, most) ==
    LET ok(c) == IF strict THEN NameChars(c) ELSE ~IsSpace(c)
        n == IF \A i \in 1..Len(s) : ok(s[i]) THEN Len(s)
             ELSE (CHOOSE i \in 1..Len(s) : ~ok(s[i]) /\ \A j \in 1..(i - 1) : ok(s[j])) - 1
    IN  IF n > most THEN most ELSE n

\* one match of 'literal[:：]?\s*([^\s\n,，。]{2,10})' at position i of s:
\* <<group, the position after the match>>, or <<>>.  The colon is taken if
\* the rest then matches, and otherwise left to the group.
MatchAfter(s, i, literal) ==
    IF ~OccursAt(literal, s, i) THEN <<>>
    ELSE LET j == i + Len(literal)
             colon == j <= Len(s) /\ s[j] \in {58, 65306} (* :： *)
             try(from) ==
                LET k == from + LeadIn(From(s, from), Whitespace)
                    n == RunLength(From(s, k), TRUE, 10)
                IN  IF n >= 2 THEN <<SubSeq(s, k, k + n - 1), k + n>> ELSE <<>>
         IN  IF colon /\ try(j + 1) # <<>> THEN try(j + 1) ELSE try(j)

\* re.findall of that pattern: the groups of the matches, left to right
RECURSIVE FindAllAfter(_, _, _)
FindAllAfter(s, i, literal) ==
    IF i > Len(s) THEN <<>>
    ELSE LET m == MatchAfter(s, i, literal)
         IN  IF m # <<>> THEN <<m[1]>> \o FindAllAfter(s, m[2], literal)
             ELSE FindAllAfter(s, i + 1, literal)

\* one match of '([^\s]{2,most})\s*literal' at position i of s (strict: the
\* group also excludes nothing more, \n being whitespace): the longest group
\* after which, whitespace skipped, the literal stands
MatchBefore(s, i, most, literal) ==
    LET run == RunLength(From(s, i), FALSE, most)
        ok(n) == OccursAt(literal, s, i + n + LeadIn(From(s, i + n), Whitespace))
    IN  IF \E n \in 2..run : ok(n)
        THEN LET n == CHOOSE a \in 2..run : ok(a) /\ \A b \in (a + 1)..run : ~ok(b)
             IN  <<SubSeq(s, i, i + n - 1),
                   i + n + LeadIn(From(s, i + n), Whitespace) + Len(literal)>>
        ELSE <<>>

RECURSIVE FindAllBefore(_, _, _, _)
FindAllBefore(s, i, most, literal) ==
    IF i > Len(s) THEN <<>>
    ELSE LET m == MatchBefore(s, i, most, literal)
         IN  IF m # <<>> THEN <<m[1]>> \o FindAllBefore(s, m[2], most, literal)
             ELSE FindAllBefore(s, i + 1, most, literal)

\* re.findall(pattern, search_text) for each of content_patterns, in order:
\* the matches the two nested loops visit, one after the other
ContentMatches(search_text) ==
    FindAllAfter(search_text, 1, <<39033, 30446>> (* "项目" *))
    \o FindAllAfter(search_text, 1, <<25152, 23646, 39033, 30446>> (* "所属项目" *))
    \o FindAllBefore(search_text, 1, 8, <<80, 82, 68>> (* "PRD" *))
    \o FindAllBefore(search_text, 1, 10, <<38656, 27714, 25991, 26723>> (* "需求文档" *))

\* the test a content match must pass, and the name it then yields
ContentAccepted(m) ==
    \E match \in {Strip(m)} :
        /\ Len(match) >= 2
        /\ ~IsDigitStr(match)
        /\ ~OccursAt(<<65306>> (* "：" *), match, 1)
        /\ ~Contains(<<35299, 20915>> (* "解决" *), match)
        /\ _standardize_project_name(match) # match \o <<39033, 30446>> (* "项目" *)

\* the loops over content_patterns and their matches: the first accepted match
\* of the first pattern that has one, standardized; <<>> if there is none
ContentName(search_text) ==
    Once({IF \E i \in 1..Len(matches) : ContentAccepted(matches[i])
          THEN _standardize_project_name(Strip(
                matches[CHOOSE i \in 1..Len(matches) :
                            /\ ContentAccepted(matches[i])
                            /\ \A j \in 1..(i - 1) : ~ContentAccepted(matches[j])]))
          ELSE <<>> :
            matches \in {ContentMatches(search_text)}})

\* _extract_explicit_project_name, with the stage that produced the name
ExplicitName(ttl, t) ==
    Once({IF core # <<>>
          THEN [name |-> _standardize_project_name(core), stage |-> "title_pattern"]
          ELSE Once({IF content # <<>>
                     THEN [name |-> content, stage |-> "content_pattern"]
                     ELSE [name |-> <<>>, stage |-> "none"] :
                        content \in {ContentName(ttl \o <<32>> \o Prefix(t, 500))}}) :
            core \in {TitleCore(ttl)}})

_extract_explicit_project_name(ttl, t) == ExplicitName(ttl, t).name

\* Counter(words)
RECURSIVE CounterOf(_, _)
CounterOf(words, counter) ==
    IF words = <<>> THEN counter
    ELSE CounterOf(Tail(words), CounterAdd(counter, Head(words)))

\* the words of a Counter's items
WordsOf(items) == [i \in 1..Len(items) |-> items[i].word]

\* the simple tokenizer of _infer_project_from_content: split at whitespace
\* and the two full-width marks, strip, keep lengths 2..8, the 15 most common
RECURSIVE SimpleWords(_)
SimpleWords(tokens) ==
    IF tokens = <<>> THEN <<>>
    ELSE LET word == StripChars(Head(tokens), {32, 9, 10, 46, 44, 33, 63, 59, 58, 40, 41, 91, 93, 123, 125, 34, 39, 45} (*  \t\n.,!?;:()[]{}"'- *))
         IN  (IF 2 <= Len(word) /\ Len(word) <= 8 THEN <<word>> ELSE <<>>)
             \o SimpleWords(Tail(tokens))

SimpleKeywords(t) ==
    LET words == SimpleWords(Split(Replace(Replace(t, 65292, 32), 12290, 32)))
    IN  Prefix(WordsOf(most_common(CounterOf(words, <<>>))), 15)

\* the two-character windows of s that are two ideographs, left to right
RECURSIVE Bigrams(_)
Bigrams(s) ==
    IF Len(s) < 2 THEN <<>>
    ELSE (IF IsCJK(s[1]) /\ IsCJK(s[2]) THEN <<SubSeq(s, 1, 2)>> ELSE <<>>)
         \o Bigrams(Tail(s))

JiebaModes == {"cut", "bigrams", "none"}

\* jieba.analyse.extract_tags(text, topK=15): the tokenizer is a third-party
\* library; its answer is one of three segmentations, fixed when the program
\* starts: the tokens of the simple tokenizer, the two-ideograph windows, or
\* no tag at all
jieba_extract_tags(mode, t) ==
    IF mode = "cut" THEN SimpleKeywords(t)
    ELSE IF mode = "bigrams"
    THEN Prefix(WordsOf(most_common(CounterOf(Bigrams(t), <<>>))), 15)
    ELSE <<>>

\* sum(1 for kw in keywords if any(w in kw for w in words))
RECURSIVE Hits(_, _)
Hits(kws, words) ==
    IF kws = <<>> THEN 0
    ELSE (IF AnyIn(words, Head(kws)) THEN 1 ELSE 0) + Hits(Tail(kws), words)

\* a variant of domain_words whose second bucket lacks the word for training
domain_words_without_training == <<
    [name |-> <<36130, 21153, 31649, 29702, 39033, 30446>> (* "财务管理项目" *), words |-> <<<<36130, 21153>> (* "财务" *), <<32467, 31639>> (* "结算" *), <<19994, 32489>> (* "业绩" *), <<27611, 21033>> (* "毛利" *), <<25104, 26412>> (* "成本" *), <<25910, 20837>> (* "收入" *), <<25903, 20986>> (* "支出" *), <<39044, 31639>> (* "预算" *), <<20250, 35745>> (* "会计" *)>>],
    [name |-> <<20154, 21147, 36164, 28304, 39033, 30446>> (* "人力资源项目" *), words |-> <<<<20154, 21147>> (* "人力" *), <<25307, 32856>> (* "招聘" *), <<21592, 24037>> (* "员工" *), <<20837, 32844>> (* "入职" *), <<34218, 37228>> (* "薪酬" *), <<32489, 25928>> (* "绩效" *), <<32771, 26680>> (* "考核" *)>>],
    [name |-> <<20135, 21697, 30740, 21457, 39033, 30446>> (* "产品研发项目" *), words |-> <<<<20135, 21697>> (* "产品" *), <<38656, 27714>> (* "需求" *), <<80, 82, 68>> (* "PRD" *), <<21151, 33021>> (* "功能" *), <<29992, 25143>> (* "用户" *), <<20307, 39564>> (* "体验" *), <<35774, 35745>> (* "设计" *)>>],
    [name |-> <<25216, 26415, 24179, 21488, 39033, 30446>> (* "技术平台项目" *), words |-> <<<<25216, 26415>> (* "技术" *), <<24320, 21457>> (* "开发" *), <<31995, 32479>> (* "系统" *), <<24179, 21488>> (* "平台" *), <<26550, 26500>> (* "架构" *), <<25968, 25454, 24211>> (* "数据库" *), <<25509, 21475>> (* "接口" *), <<65, 80, 73>> (* "API" *)>>],
    [name |-> <<36816, 33829, 25512, 24191, 39033, 30446>> (* "运营推广项目" *), words |-> <<<<36816, 33829>> (* "运营" *), <<33829, 38144>> (* "营销" *), <<25512, 24191>> (* "推广" *), <<27963, 21160>> (* "活动" *), <<36716, 21270>> (* "转化" *), <<28192, 36947>> (* "渠道" *), <<23458, 25143>> (* "客户" *)>>],
    [name |-> <<32452, 32455, 31649, 29702, 39033, 30446>> (* "组织管理项目" *), words |-> <<<<31649, 29702>> (* "管理" *), <<27969, 31243>> (* "流程" *), <<21046, 24230>> (* "制度" *), <<35268, 33539>> (* "规范" *), <<20248, 21270>> (* "优化" *), <<22242, 38431>> (* "团队" *), <<32452, 32455>> (* "组织" *)>>],
    [name |-> <<30693, 35782, 31649, 29702, 39033, 30446>> (* "知识管理项目" *), words |-> <<<<25991, 26723>> (* "文档" *), <<30693, 35782>> (* "知识" *), <<20998, 31867>> (* "分类" *), <<25910, 38598>> (* "收集" *), <<25972, 29702>> (* "整理" *), <<24402, 26723>> (* "归档" *), <<25351, 21335>> (* "指南" *)>>] >>

domain_words == <<
    [name |-> <<36130, 21153, 31649, 29702, 39033, 30446>> (* "财务管理项目" *), words |-> <<<<36130, 21153>> (* "财务" *), <<32467, 31639>> (* "结算" *), <<19994, 32489>> (* "业绩" *), <<27611, 21033>> (* "毛利" *), <<25104, 26412>> (* "成本" *), <<25910, 20837>> (* "收入" *), <<25903, 20986>> (* "支出" *), <<39044, 31639>> (* "预算" *), <<20250, 35745>> (* "会计" *)>>],
    [name |-> <<20154, 21147, 36164, 28304, 39033, 30446>> (* "人力资源项目" *), words |-> <<<<20154, 21147>> (* "人力" *), <<25307, 32856>> (* "招聘" *), <<22521, 35757>> (* "培训" *), <<21592, 24037>> (* "员工" *), <<20837, 32844>> (* "入职" *), <<34218, 37228>> (* "薪酬" *), <<32489, 25928>> (* "绩效" *), <<32771, 26680>> (* "考核" *)>>],
    [name |-> <<20135, 21697, 30740, 21457, 39033, 30446>> (* "产品研发项目" *), words |-> <<<<20135, 21697>> (* "产品" *), <<38656, 27714>> (* "需求" *), <<80, 82, 68>> (* "PRD" *), <<21151, 33021>> (* "功能" *), <<29992, 25143>> (* "用户" *), <<20307, 39564>> (* "体验" *), <<35774, 35745>> (* "设计" *)>>],
    [name |-> <<25216, 26415, 24179, 21488, 39033, 30446>> (* "技术平台项目" *), words |-> <<<<25216, 26415>> (* "技术" *), <<24320, 21457>> (* "开发" *), <<31995, 32479>> (* "系统" *), <<24179, 21488>> (* "平台" *), <<26550, 26500>> (* "架构" *), <<25968, 25454, 24211>> (* "数据库" *), <<25509, 21475>> (* "接口" *), <<65, 80, 73>> (* "API" *)>>],
    [name |-> <<36816, 33829, 25512, 24191, 39033, 30446>> (* "运营推广项目" *), words |-> <<<<36816, 33829>> (* "运营" *), <<33829, 38144>> (* "营销" *), <<25512, 24191>> (* "推广" *), <<27963, 21160>> (* "活动" *), <<36716, 21270>> (* "转化" *), <<28192, 36947>> (* "渠道" *), <<23458, 25143>> (* "客户" *)>>],
    [name |-> <<32452, 32455, 31649, 29702, 39033, 30446>> (* "组织管理项目" *), words |-> <<<<31649, 29702>> (* "管理" *), <<27969, 31243>> (* "流程" *), <<21046, 24230>> (* "制度" *), <<35268, 33539>> (* "规范" *), <<20248, 21270>> (* "优化" *), <<22242, 38431>> (* "团队" *), <<32452, 32455>> (* "组织" *)>>],
    [name |-> <<30693, 35782, 31649, 29702, 39033, 30446>> (* "知识管理项目" *), words |-> <<<<25991, 26723>> (* "文档" *), <<30693, 35782>> (* "知识" *), <<20998, 31867>> (* "分类" *), <<25910, 38598>> (* "收集" *), <<25972, 29702>> (* "整理" *), <<24402, 26723>> (* "归档" *), <<25351, 21335>> (* "指南" *)>>] >>

business_words == <<<<29992, 25143>> (* "用户" *), <<20135, 21697>> (* "产品" *), <<19994, 21153>> (* "业务" *), <<36816, 33829>> (* "运营" *), <<33829, 38144>> (* "营销" *), <<21830, 19994>> (* "商业" *)>>
coarse_tech_words == <<<<31995, 32479>> (* "系统" *), <<24179, 21488>> (* "平台" *), <<25216, 26415>> (* "技术" *), <<24320, 21457>> (* "开发" *), <<25968, 25454>> (* "数据" *), <<21151, 33021>> (* "功能" *)>>
mgmt_words == <<<<31649, 29702>> (* "管理" *), <<27969, 31243>> (* "流程" *), <<21046, 24230>> (* "制度" *), <<22521, 35757>> (* "培训" *), <<22242, 38431>> (* "团队" *)>>

domain_scores(kws) ==
    [i \in 1..Len(domain_words) |->
        [name |-> domain_words[i].name, score |-> Hits(kws, domain_words[i].words)]]

\* the title checks repeated inside _infer_project_from_content
InferTitleTiers(title_lower) ==
    TitleTiers(title_lower, <<<<26032, 20154>> (* "新人" *), <<20837, 32844>> (* "入职" *), <<22521, 35757>> (* "培训" *), <<111, 110, 98, 111, 97, 114, 100>> (* "onboard" *)>>)

\* a variant of CoarseProject in which the business count wins the ties
CoarseProjectBusinessFirst(kws) ==
    Once({IF business_count >= tech_count /\ business_count >= mgmt_count THEN <<19994, 21153, 36816, 33829, 39033, 30446>> (* "业务运营项目" *)
          ELSE IF tech_count >= mgmt_count THEN <<25216, 26415, 24179, 21488, 39033, 30446>> (* "技术平台项目" *)
          ELSE <<32452, 32455, 31649, 29702, 39033, 30446>> (* "组织管理项目" *) :
            business_count \in {Hits(kws, business_words)},
            tech_count \in {Hits(kws, coarse_tech_words)},
            mgmt_count \in {Hits(kws, mgmt_words)}})

\* the three-count fallback at the end of _infer_project_from_content
CoarseProject(kws) ==
    Once({IF tech_count >= business_count /\ tech_count >= mgmt_count THEN <<25216, 26415, 24179, 21488, 39033, 30446>> (* "技术平台项目" *)
          ELSE IF business_count >= mgmt_count THEN <<19994, 21153, 36816, 33829, 39033, 30446>> (* "业务运营项目" *)
          ELSE <<32452, 32455, 31649, 29702, 39033, 30446>> (* "组织管理项目" *) :
            business_count \in {Hits(kws, business_words)},
            tech_count \in {Hits(kws, coarse_tech_words)},
            mgmt_count \in {Hits(kws, mgmt_words)}})

\* _infer_project_from_content, with the branch that returned
InferResult(has_jieba, mode, t, ttl) ==
    Once({IF byTitle # <<>> THEN [project |-> byTitle, branch |-> "title"]
          ELSE Once({IF best.score > 0 THEN [project |-> best.name, branch |-> "domain"]
                     ELSE [project |-> CoarseProject(kws), branch |-> "coarse"] :
                        <<kws, best>> \in
                            {<<k, FirstMax(domain_scores(k))>> :
                                k \in {IF has_jieba THEN jieba_extract_tags(mode, t)
                                       ELSE SimpleKeywords(t)}}}) :
            byTitle \in {InferTitleTiers(Lower(ttl))}})

_infer_project_from_content(has_jieba, mode, t, ttl) ==
    InferResult(has_jieba, mode, t, ttl).project

\* the title checks at the head of identify_project
IdentifyTitleTiers(title_lower) ==
    TitleTiers(title_lower, <<<<26032, 20154>> (* "新人" *), <<20837, 32844>> (* "入职" *), <<22521, 35757>> (* "培训" *)>>)

\* a variant of IdentifyResult that extracts the explicit name before it
\* checks the title
IdentifyExplicitFirst(pk, has_jieba, mode, t, ttl) ==
    Once({IF explicit.name # <<>>
          THEN [project |-> explicit.name, via |-> explicit.stage]
          ELSE Once({IF byTitle # <<>> THEN [project |-> byTitle, via |-> "title_tier"]
                     ELSE [project |-> _infer_project_from_content(
                                            has_jieba, mode, CombinedText(t, ttl), ttl),
                           via |-> "inference"] :
                        byTitle \in {IdentifyTitleTiers(Lower(ttl))}}) :
            explicit \in {ExplicitName(ttl, t)}})

\* identify_project, with the step that returned
IdentifyResult(pk, has_jieba, mode, t, ttl) ==
    LET title_lower == Lower(ttl)
        combined_text == CombinedText(t, ttl)
        Scored(project_scores) ==
            IF project_scores # <<>> /\ FirstMax(project_scores).score >= 3
            THEN [project |-> FirstMax(project_scores).name, via |-> "scoring"]
            ELSE [project |-> _infer_project_from_content(has_jieba, mode, combined_text, ttl),
                  via |-> "inference"]
        Explicit(explicit) ==
            IF explicit.name # <<>>
            THEN [project |-> explicit.name, via |-> explicit.stage]
            ELSE Once({Scored(project_scores) :
                        project_scores \in {PositiveScores(pk, combined_text, title_lower, 3)}})
    IN  Once({IF byTitle # <<>> THEN [project |-> byTitle, via |-> "title_tier"]
              ELSE Once({Explicit(explicit) : explicit \in {ExplicitName(ttl, t)}}) :
                byTitle \in {IdentifyTitleTiers(title_lower)}})

identify_project(pk, has_jieba, mode, t, ttl) ==
    IdentifyResult(pk, has_jieba, mode, t, ttl).project

-----------------------------------------------------------------------------
(* SummaryGenerator *)

\* [p.strip() for p in text.split('\n') if p.strip()]
Paragraphs(t) ==
    LET lines == SplitAt(t, 10)
        stripped == [i \in 1..Len(lines) |-> Strip(lines[i])]
        NonEmpty(p) == p # <<>>
    IN  SelectSeq(stripped, NonEmpty)

background_patterns == <<<<32972, 26223>> (* "背景" *), <<29616, 29366>> (* "现状" *), <<38382, 39064>> (* "问题" *), <<25361, 25112>> (* "挑战" *), <<21407, 22240>> (* "原因" *), <<24773, 20917>> (* "情况" *)>>
objective_patterns == <<<<30446, 26631>> (* "目标" *), <<30446, 30340>> (* "目的" *), <<26399, 26395>> (* "期望" *), <<39044, 26399>> (* "预期" *), <<35745, 21010>> (* "计划" *), <<35201, 27714>> (* "要求" *)>>
content_patterns == <<<<20869, 23481>> (* "内容" *), <<21151, 33021>> (* "功能" *), <<29305, 28857>> (* "特点" *), <<29305, 24615>> (* "特性" *), <<21253, 25324>> (* "包括" *), <<21253, 21547>> (* "包含" *), <<20855, 20307>> (* "具体" *)>>
solution_patterns == <<<<26041, 26696>> (* "方案" *), <<35299, 20915>> (* "解决" *), <<23454, 29616>> (* "实现" *), <<23454, 26045>> (* "实施" *), <<25191, 34892>> (* "执行" *), <<25805, 20316>> (* "操作" *), <<27493, 39588>> (* "步骤" *), <<27969, 31243>> (* "流程" *)>>
result_patterns == <<<<32467, 26524>> (* "结果" *), <<25928, 26524>> (* "效果" *), <<25910, 30410>> (* "收益" *), <<20215, 20540>> (* "价值" *), <<25104, 26524>> (* "成果" *), <<24635, 32467>> (* "总结" *), <<32467, 35770>> (* "结论" *)>>

\* the branch of the if/elif chain a paragraph takes
ParagraphGroup(para) ==
    LET para_lower == Lower(para)
    IN  IF AnyIn(background_patterns, para_lower) THEN "background"
        ELSE IF AnyIn(objective_patterns, para_lower) THEN "objective"
        ELSE IF AnyIn(solution_patterns, para_lower) THEN "solution"
        ELSE IF AnyIn(result_patterns, para_lower) THEN "result"
        ELSE IF AnyIn(content_patterns, para_lower) THEN "content"
        ELSE "none"

\* the paragraphs appended to one of the five lists
Bucket(paragraphs, group) ==
    LET Belongs(para) == ParagraphGroup(para) = group /\ Len(para) > 15
    IN  SelectSeq(paragraphs, Belongs)

important_keywords == <<
    <<39033, 30446>> (* "项目" *), <<31995, 32479>> (* "系统" *), <<24179, 21488>> (* "平台" *), <<21151, 33021>> (* "功能" *), <<38656, 27714>> (* "需求" *), <<35774, 35745>> (* "设计" *), <<24320, 21457>> (* "开发" *), <<27979, 35797>> (* "测试" *), <<36816, 32500>> (* "运维" *),
    <<31649, 29702>> (* "管理" *), <<27969, 31243>> (* "流程" *), <<35268, 33539>> (* "规范" *), <<20248, 21270>> (* "优化" *), <<21319, 32423>> (* "升级" *), <<25913, 36827>> (* "改进" *), <<23454, 29616>> (* "实现" *), <<25903, 25345>> (* "支持" *), <<25552, 20379>> (* "提供" *),
    <<29992, 25143>> (* "用户" *), <<23458, 25143>> (* "客户" *), <<19994, 21153>> (* "业务" *), <<26381, 21153>> (* "服务" *), <<20135, 21697>> (* "产品" *), <<26041, 26696>> (* "方案" *), <<35745, 21010>> (* "计划" *), <<30446, 26631>> (* "目标" *), <<25928, 26524>> (* "效果" *) >>

RECURSIVE ImportanceScore(_, _)
ImportanceScore(kws, para_lower) ==
    IF kws = <<>> THEN 0
    ELSE Count(Head(kws), para_lower) + ImportanceScore(Tail(kws), para_lower)

\* the paragraphs scored when no list was filled: the best 8 of the first 15
ScoredParagraphs(paragraphs) ==
    LET first == Prefix(paragraphs, 15)
        scored == [i \in 1..Len(first) |->
                    [para |-> first[i],
                     score |-> ImportanceScore(important_keywords, Lower(first[i]))]]
        Kept(x) == Len(x.para) > 30 /\ x.score > 0
        kept == SelectSeq(scored, Kept)
        sorted == StableDescending(kept, [i \in 1..Len(kept) |-> kept[i].score])
    IN  Prefix([i \in 1..Len(sorted) |-> sorted[i].para], 8)

\* a labelled section: label + ' '.join(paras[:most]), or nothing
Section(label, paras, most) ==
    IF paras # <<>> THEN <<label \o Join(<<32>>, Prefix(paras, most))>> ELSE <<>>

\* summary_parts when the tokenizer is present
StructuredParts(paragraphs) ==
    LET background_info == Bucket(paragraphs, "background")
        objective_info == Bucket(paragraphs, "objective")
        solution_info == Bucket(paragraphs, "solution")
        result_info == Bucket(paragraphs, "result")
        bucketed == Bucket(paragraphs, "content")
        content_info ==
            IF /\ background_info = <<>> /\ objective_info = <<>> /\ bucketed = <<>>
               /\ solution_info = <<>> /\ result_info = <<>>
            THEN ScoredParagraphs(paragraphs)
            ELSE bucketed
    IN  Section(<<12304, 32972, 26223, 24773, 20917, 12305>> (* "【背景情况】" *), background_info, 2)
        \o Section(<<12304, 39033, 30446, 30446, 26631, 12305>> (* "【项目目标】" *), objective_info, 2)
        \o Section(<<12304, 20027, 35201, 20869, 23481, 12305>> (* "【主要内容】" *), content_info, 4)
        \o Section(<<12304, 23454, 26045, 26041, 26696, 12305>> (* "【实施方案】" *), solution_info, 3)
        \o Section(<<12304, 39044, 26399, 25928, 26524, 12305>> (* "【预期效果】" *), result_info, 2)

\* summary_parts when the tokenizer is absent
SimpleParts(paragraphs) ==
    LET Long(para) == Len(para) > 30
    IN  Section(<<12304, 25991, 26723, 20869, 23481, 12305>> (* "【文档内容】" *), SelectSeq(Prefix(paragraphs, 10), Long), 5)

\* a variant of FallbackPart whose preview takes paragraphs longer than 15
FallbackPartFrom16(paragraphs, t, ttl) ==
    LET Medium(para) == Len(para) > 15
        content_preview == SelectSeq(Prefix(paragraphs, 6), Medium)
    IN  IF content_preview # <<>>
        THEN <<12304, 25991, 26723, 27010, 36848, 12305, 26412, 25991, 26723, 20027, 35201, 38416, 36848, 20102>> (* "【文档概述】本文档主要阐述了" *) \o ttl \o <<30340, 30456, 20851, 20869, 23481, 65292, 21253, 25324, 65306>> (* "的相关内容，包括：" *)
             \o Join(<<32>>, content_preview)
        ELSE <<12304, 25991, 26723, 27010, 36848, 12305, 26412, 25991, 26723, 25551, 36848, 20102>> (* "【文档概述】本文档描述了" *) \o ttl \o <<30456, 20851, 20869, 23481, 65306>> (* "相关内容：" *)
             \o Prefix(t, 300) \o <<46, 46, 46>> (* "..." *)

\* the part built when no section was: the preview of the first paragraphs,
\* or the head of the text followed by an ellipsis
FallbackPart(paragraphs, t, ttl) ==
    LET Medium(para) == Len(para) > 20
        content_preview == SelectSeq(Prefix(paragraphs, 6), Medium)
    IN  IF content_preview # <<>>
        THEN <<12304, 25991, 26723, 27010, 36848, 12305, 26412, 25991, 26723, 20027, 35201, 38416, 36848, 20102>> (* "【文档概述】本文档主要阐述了" *) \o ttl \o <<30340, 30456, 20851, 20869, 23481, 65292, 21253, 25324, 65306>> (* "的相关内容，包括：" *)
             \o Join(<<32>>, content_preview)
        ELSE <<12304, 25991, 26723, 27010, 36848, 12305, 26412, 25991, 26723, 25551, 36848, 20102>> (* "【文档概述】本文档描述了" *) \o ttl \o <<30456, 20851, 20869, 23481, 65306>> (* "相关内容：" *)
             \o Prefix(t, 300) \o <<46, 46, 46>> (* "..." *)

\* a variant of generate_content_summary without the block that fills an
\* empty summary_parts
SummaryWithoutFallback(has_jieba, t, ttl) ==
    IF Strip(t) = <<>> THEN <<25991, 26723, 20869, 23481, 20026, 31354>> (* "文档内容为空" *)
    ELSE LET paragraphs == Paragraphs(t)
         IN  Join(<<32>>, IF has_jieba THEN StructuredParts(paragraphs)
                          ELSE SimpleParts(paragraphs))

\* generate_content_summary
generate_content_summary(has_jieba, t, ttl) ==
    IF Strip(t) = <<>> THEN <<25991, 26723, 20869, 23481, 20026, 31354>> (* "文档内容为空" *)
    ELSE LET paragraphs == Paragraphs(t)
             parts == IF has_jieba THEN StructuredParts(paragraphs)
                      ELSE SimpleParts(paragraphs)
             summary_parts ==
                IF parts = <<>> THEN <<FallbackPart(paragraphs, t, ttl)>> ELSE parts
         IN  Join(<<32>>, summary_parts)

-----------------------------------------------------------------------------
(* ClassificationOrchestrator *)

\* format_output: the four columns of the record
format_output(ttl, proj, dtype, kws, summ) ==
    [title |-> ttl,
     project |-> proj,
     keywords_field |-> dtype \o <<59, 32>> (* "; " *) \o (IF kws # <<>> THEN Join(<<59, 32>> (* "; " *), kws) ELSE <<>>),
     summary |-> summ]

\* extract_text_from_file: <<title, text>> of a file given as its stem, its
\* suffix, whether it can be read, and the text a reader gets from it
extract_text_from_file(f, has_docx) ==
    IF Lower(f.suffix) = <<46, 100, 111, 99, 120>> (* ".docx" *)
    THEN IF ~has_docx THEN <<f.stem, <<>>>>
         ELSE IF ~f.readable THEN <<f.stem, <<>>>>
         ELSE <<f.stem, f.content>>
    ELSE IF Lower(f.suffix) = <<46, 116, 120, 116>> (* ".txt" *)
    THEN IF ~f.readable THEN <<f.stem, <<>>>>
         ELSE <<f.stem, f.content>>
    ELSE <<f.stem, <<>>>>

\* the part of process_document that calls the four components: the values
\* handed to format_output, the record it returns and the components called
ClassifyText(types, pk, has_jieba, mode, ttl, t) ==
    Once({[project |-> id.project, via |-> id.via, doc_type |-> dtype,
           keywords |-> kws, summary |-> summ,
           result |-> format_output(ttl, id.project, dtype, kws, summ),
           invoked |-> {"identify_project", "classify_document_type",
                        "extract_keywords", "generate_content_summary",
                        "format_output"}] :
            id \in {IdentifyResult(pk, has_jieba, mode, t, ttl)},
            dtype \in {classify_document_type(types, t, ttl)},
            kws \in {extract_keywords(t, 0)},
            summ \in {generate_content_summary(has_jieba, t, ttl)}})

\* a variant of ProcessText without the check for an empty document
ProcessTextUnchecked(types, pk, has_jieba, mode, ttl, t) ==
    ClassifyText(types, pk, has_jieba, mode, ttl, t)

\* process_document after the text was extracted
ProcessText(types, pk, has_jieba, mode, ttl, t) ==
    IF Strip(t) = <<>>
    THEN [project |-> <<26410, 30693, 39033, 30446>> (* "未知项目" *), via |-> "none", doc_type |-> <<30693, 35782, 31867, 25991, 26723>> (* "知识类文档" *),
          keywords |-> <<>>, summary |-> <<25991, 26723, 20869, 23481, 20026, 31354>> (* "文档内容为空" *),
          result |-> format_output(ttl, <<26410, 30693, 39033, 30446>> (* "未知项目" *), <<30693, 35782, 31867, 25991, 26723>> (* "知识类文档" *), <<>>, <<25991, 26723, 20869, 23481, 20026, 31354>> (* "文档内容为空" *)),
          invoked |-> {"format_output"}]
    ELSE ClassifyText(types, pk, has_jieba, mode, ttl, t)

\* a variant of AttributesAfter that adds the document's keywords to the
\* catalog entry of the project it was given
AttributesLearned(types, pk, proj, kws) ==
    [document_types |-> types,
     project_keywords |->
        IF \E i \in 1..Len(pk) : pk[i].name = proj
        THEN [i \in 1..Len(pk) |->
                IF pk[i].name = proj
                THEN [name |-> pk[i].name, keywords |-> pk[i].keywords \o kws]
                ELSE pk[i]]
        ELSE Append(pk, [name |-> proj, keywords |-> kws])]

\* what process_document leaves in the tagger's attributes: it assigns to
\* none of them
AttributesAfter(types, pk, proj, kws) ==
    [document_types |-> types, project_keywords |-> pk]

-----------------------------------------------------------------------------
(* Persistence: save_results_to_csv.  The file is "absent" or the sequence  *)
(* of the records written to it, each as the text csv.writer produced,      *)
(* without the line terminator.                                             *)

fieldnames == <<<<25991, 26723, 26631, 39064>> (* "文档标题" *), <<25152, 23646, 39033, 30446>> (* "所属项目" *), <<25991, 26723, 20851, 38190, 35789>> (* "文档关键词" *), <<25991, 26723, 20869, 23481, 27010, 36848>> (* "文档内容概述" *)>>

\* csv.writer quotes a field that holds the delimiter, a quote or a line end
NeedsQuotes(field) == \E i \in 1..Len(field) : field[i] \in {44, 34, 13, 10}

RECURSIVE DoubleQuotes(_)
DoubleQuotes(s) ==
    IF s = <<>> THEN <<>>
    ELSE (IF Head(s) = 34 THEN <<34, 34>> ELSE <<Head(s)>>) \o DoubleQuotes(Tail(s))

CsvField(field) ==
    IF NeedsQuotes(field) THEN <<34>> \o DoubleQuotes(field) \o <<34>> ELSE field

\* csv.writer.writerow
writerow(row) ==
    IF row = << <<>> >> THEN <<34, 34>>
    ELSE Join(<<44>>, [i \in 1..Len(row) |-> CsvField(row[i])])

\* csv.reader: a field outside quotes ends at the delimiter; inside quotes a
\* doubled quote is a quote and a single one ends the quoted part
RECURSIVE ReadUnquoted(_, _, _)
RECURSIVE ReadQuoted(_, _, _)
ReadUnquoted(s, i, acc) ==
    IF i > Len(s) \/ s[i] = 44 THEN <<acc, i>>
    ELSE ReadUnquoted(s, i + 1, Append(acc, s[i]))

ReadQuoted(s, i, acc) ==
    IF i > Len(s) THEN <<acc, i>>
    ELSE IF s[i] = 34
    THEN IF i + 1 <= Len(s) /\ s[i + 1] = 34
         THEN ReadQuoted(s, i + 2, Append(acc, 34))
         ELSE ReadUnquoted(s, i + 1, acc)
    ELSE ReadQuoted(s, i + 1, Append(acc, s[i]))

RECURSIVE ReadFields(_, _)
ReadFields(s, i) ==
    LET f == IF i <= Len(s) /\ s[i] = 34 THEN ReadQuoted(s, i + 1, <<>>)
             ELSE ReadUnquoted(s, i, <<>>)
    IN  IF f[2] > Len(s) THEN <<f[1]>> ELSE <<f[1]>> \o ReadFields(s, f[2] + 1)

\* the row csv.reader yields for one written record; [] for an empty line
reader_row(line) == IF line = <<>> THEN <<>> ELSE ReadFields(line, 1)

\* row.get(name, '') on a row of csv.DictReader: the last column of that name;
\* a column the row is too short for holds None
DictGet(header, row, name) ==
    IF \E i \in 1..Len(header) : header[i] = name
    THEN LET i == CHOOSE a \in 1..Len(header) :
                    /\ header[a] = name
                    /\ \A b \in (a + 1)..Len(header) : header[b] # name
         IN  IF i <= Len(row) THEN row[i] ELSE <<78, 111, 110, 101>> (* "None" *)
    ELSE <<>>

\* the unique identifier of a record
Identifier(ttl, proj, kwfield) == ttl \o <<45>> (* "-" *) \o proj \o <<45>> (* "-" *) \o kwfield

\* existing_results: the identifiers of the rows the file holds
existing_results(csv) ==
    IF csv = "absent" \/ csv = <<>> THEN {}
    ELSE LET header == reader_row(csv[1])
             rows == {reader_row(csv[i]) : i \in 2..Len(csv)} \ {<<>>}
         IN  {Identifier(DictGet(header, row, fieldnames[1]),
                         DictGet(header, row, fieldnames[2]),
                         DictGet(header, row, fieldnames[3])) : row \in rows}

\* new_results: the records of the batch whose identifier the file lacks
new_results(batch, csv) ==
    Once({SelectSeq(batch, LAMBDA r :
                Identifier(r.title, r.project, r.keywords_field) \notin existing) :
            existing \in {existing_results(csv)}})

\* write_header: the file is missing, or its first line is not the header
write_header(csv) ==
    \/ csv = "absent"
    \/ csv = <<>>
    \/ Strip(SplitAt(csv[1], 10)[1]) # Join(<<44>>, fieldnames)

\* the values of a record in the order of fieldnames
RecordRow(r) == <<r.title, r.project, r.keywords_field, r.summary>>

\* existing_data: the non-empty rows of the file, cut or filled to four columns
existing_data(csv) ==
    LET rows == SelectSeq([i \in 1..Len(csv) |-> reader_row(csv[i])],
                          LAMBDA row : row # <<>>)
    IN  [i \in 1..Len(rows) |->
            [k \in 1..4 |-> IF k <= Len(rows[i]) THEN rows[i][k] ELSE <<>>]]

\* save_results_to_csv: the file after the call
save_results_to_csv(batch, csv) ==
    Once({IF new # <<>> \/ write_header(csv)
          THEN IF write_header(csv) /\ csv # "absent"
               THEN <<writerow(fieldnames)>>
                    \o [i \in 1..Len(existing_data(csv)) |-> writerow(existing_data(csv)[i])]
                    \o [i \in 1..Len(new) |-> writerow(RecordRow(new[i]))]
               ELSE IF csv # "absent"
               THEN csv \o [i \in 1..Len(new) |-> writerow(RecordRow(new[i]))]
               ELSE <<writerow(fieldnames)>>
                    \o [i \in 1..Len(new) |-> writerow(RecordRow(new[i]))]
          ELSE csv :
            new \in {new_results(batch, csv)}})

-----------------------------------------------------------------------------
(* Batch processing: process_directory.  A directory path is given by       *)
(* whether it exists, whether it is a directory, and the set of its         *)
(* entries; an entry is a file record, whether it is a sub-directory, and   *)
(* the message of the exception process_document raises for it (none when   *)
(* empty).  Names are matched as on a POSIX system, where glob              *)
(* distinguishes upper and lower case.                                      *)

\* Path.name
EntryName(e) == e.file.stem \o e.file.suffix

\* s.endswith(suffix)
EndsWith(s, suffix) ==
    Len(s) >= Len(suffix) /\ SubSeq(s, Len(s) - Len(suffix) + 1, Len(s)) = suffix

\* a < b for two str: the order of the first differing code point
RECURSIVE StrLess(_, _)
StrLess(a, b) ==
    IF b = <<>> THEN FALSE
    ELSE IF a = <<>> THEN TRUE
    ELSE IF a[1] # b[1] THEN a[1] < b[1]
    ELSE StrLess(Tail(a), Tail(b))

supported_extensions == <<<<46, 116, 120, 116>> (* ".txt" *), <<46, 100, 111, 99, 120>> (* ".docx" *)>>

\* directory.glob('*' + ext): the entries whose name ends in ext
Glob(entries, ext) == {e \in entries : EndsWith(EntryName(e), ext)}

\* files_to_process after files_to_process.sort(key=lambda x: x.name)
RECURSIVE SortedByName(_)
SortedByName(entries) ==
    IF entries = {} THEN <<>>
    ELSE LET first == CHOOSE e \in entries :
                        \A d \in entries \ {e} : StrLess(EntryName(e), EntryName(d))
         IN  <<first>> \o SortedByName(entries \ {first})

files_to_process(entries) ==
    SortedByName(UNION {Glob(entries, supported_extensions[i]) :
                            i \in 1..Len(supported_extensions)})

\* the record appended by the except branch of the loop
FailureRecord(e) ==
    [title |-> e.file.stem, project |-> <<22788, 29702, 22833, 36133>> (* "处理失败" *),
     keywords_field |-> <<38169, 35823>> (* "错误" *), summary |-> e.raises]

\* process_document(str(file_path)) for an entry that raises nothing: a
\* sub-directory cannot be opened, so its text is extracted as a failure
EntryResult(types, pk, has_docx, has_jieba, mode, e) ==
    Once({ProcessText(types, pk, has_jieba, mode, tt[1], tt[2]) :
            tt \in {extract_text_from_file(
                        IF e.is_dir THEN [e.file EXCEPT !.readable = FALSE] ELSE e.file,
                        has_docx)}})

\* a variant of ProcessEach that leaves the loop at the first exception
ProcessEachUntilError(types, pk, has_docx, has_jieba, mode, files) ==
    LET stop == IF \E i \in 1..Len(files) : files[i].raises # <<>>
                THEN CHOOSE i \in 1..Len(files) :
                        /\ files[i].raises # <<>>
                        /\ \A j \in 1..(i - 1) : files[j].raises = <<>>
                ELSE Len(files)
    IN  [i \in 1..stop |->
            IF files[i].raises # <<>> THEN FailureRecord(files[i])
            ELSE EntryResult(types, pk, has_docx, has_jieba, mode, files[i]).result]

\* the loop of process_directory: a record for every file, the failure
\* record when process_document raised
ProcessEach(types, pk, has_docx, has_jieba, mode, files) ==
    [i \in 1..Len(files) |->
        IF files[i].raises # <<>> THEN FailureRecord(files[i])
        ELSE EntryResult(types, pk, has_docx, has_jieba, mode, files[i]).result]

\* process_directory
process_directory(types, pk, has_docx, has_jieba, mode, dir) ==
    IF ~dir.exists THEN <<>>
    ELSE IF ~dir.is_dir THEN <<>>
    ELSE Once({IF files = <<>> THEN <<>>
               ELSE ProcessEach(types, pk, has_docx, has_jieba, mode, files) :
                    files \in {files_to_process(dir.entries)}})

-----------------------------------------------------------------------------
(* The command line: main *)

\* s.split(sep) for a separator of one or more characters
RECURSIVE SplitSep(_, _)
SplitSep(s, sep) ==
    IF Contains(sep, s)
    THEN LET i == CHOOSE a \in 1..Len(s) :
                    /\ OccursAt(sep, s, a)
                    /\ \A b \in 1..(a - 1) : ~OccursAt(sep, s, b)
         IN  <<SubSeq(s, 1, i - 1)>> \o SplitSep(From(s, i + Len(sep)), sep)
    ELSE <<s>>

\* one row of the table main prints for the results of a directory: the
\* document type and the keywords are read back from the keywords field
ReportRow(i, record) ==
    Once({[index |-> i, title |-> record.title, project |-> record.project,
           doc_type |-> IF record.keywords_field # <<>> THEN parts[1] ELSE <<>>,
           keywords |-> IF record.keywords_field # <<>> THEN Tail(parts) ELSE <<>>,
           keyword_count |-> IF record.keywords_field # <<>> THEN Len(parts) - 1 ELSE 0] :
            parts \in {SplitSep(record.keywords_field, <<59, 32>> (* "; " *))}})

\* the rows of the table
Report(records) == [i \in 1..Len(records) |-> ReportRow(i, records[i])]

-----------------------------------------------------------------------------
(* project_directory_manager.py and document_mover.py.  A path is the       *)
(* sequence of names that leads to it from the base path; the tree under    *)
(* the base path is the set of its directories and the set of its files,    *)
(* each with its content.                                                   *)

\* Path.name
PathName(path) == path[Len(path)]

\* Path.stem of a name: the name without its last suffix
Stem(name) ==
    LET dots == {i \in 1..Len(name) : name[i] = 46}
        last == CHOOSE i \in dots : \A j \in dots : j <= i
    IN  IF dots # {} /\ 2 <= last /\ last <= Len(name) - 1
        THEN SubSeq(name, 1, last - 1)
        ELSE name

\* path is an entry of the directory dir
IsUnder(path, dir) ==
    Len(path) = Len(dir) + 1 /\ SubSeq(path, 1, Len(dir)) = dir

\* the order in which a directory is scanned is not specified: entries come
\* by ascending or by descending name
RECURSIVE ScanOrder(_, _)
ScanOrder(paths, reversed) ==
    IF paths = {} THEN <<>>
    ELSE LET first == CHOOSE p \in paths : \A q \in paths \ {p} :
                        IF reversed THEN StrLess(PathName(q), PathName(p))
                        ELSE StrLess(PathName(p), PathName(q))
         IN  <<first>> \o ScanOrder(paths \ {first}, reversed)

\* Path.rglob('*' + ext) from dir: the matching files of dir, then those of
\* each of its sub-directories, recursively
RECURSIVE rglob(_, _, _, _)
RECURSIVE RglobEach(_, _, _, _)
rglob(fs, dir, ext, reversed) ==
    ScanOrder({f.path : f \in {g \in fs.files :
                    IsUnder(g.path, dir) /\ EndsWith(PathName(g.path), ext)}}, reversed)
    \o RglobEach(fs, ScanOrder({d \in fs.dirs : IsUnder(d, dir)}, reversed), ext, reversed)

RglobEach(fs, dirs, ext, reversed) ==
    IF dirs = <<>> THEN <<>>
    ELSE rglob(fs, Head(dirs), ext, reversed) \o RglobEach(fs, Tail(dirs), ext, reversed)

\* find_document_files: the base path, then its documents directory
find_document_files(fs, reversed) ==
    rglob(fs, <<>>, <<46, 116, 120, 116>> (* ".txt" *), reversed) \o rglob(fs, <<>>, <<46, 100, 111, 99, 120>> (* ".docx" *), reversed)
    \o (IF <<<<100, 111, 99, 117, 109, 101, 110, 116, 115>> (* "documents" *)>> \in fs.dirs
        THEN rglob(fs, <<<<100, 111, 99, 117, 109, 101, 110, 116, 115>> (* "documents" *)>>, <<46, 116, 120, 116>> (* ".txt" *), reversed)
             \o rglob(fs, <<<<100, 111, 99, 117, 109, 101, 110, 116, 115>> (* "documents" *)>>, <<46, 100, 111, 99, 120>> (* ".docx" *), reversed)
        ELSE <<>>)

\* the rows csv.DictReader yields for the file, as title and project, stripped
TitleProjectRows(csv) ==
    IF csv = <<>> THEN <<>>
    ELSE LET header == reader_row(csv[1])
             rows == SelectSeq([i \in 1..(Len(csv) - 1) |-> reader_row(csv[i + 1])],
                               LAMBDA row : row # <<>>)
         IN  [i \in 1..Len(rows) |->
                [title |-> Strip(DictGet(header, rows[i], fieldnames[1])),
                 project |-> Strip(DictGet(header, rows[i], fieldnames[2]))]]

\* read_csv_mapping: the rows with a title and a project, in file order; a
\* later row of a title replaces an earlier one
read_csv_mapping(csv) ==
    SelectSeq(TitleProjectRows(csv), LAMBDA row : row.title # <<>> /\ row.project # <<>>)

\* file_title in mapping
InMapping(mapping, file_title) ==
    \E i \in 1..Len(mapping) : mapping[i].title = file_title

\* mapping[file_title]
MappedProject(mapping, file_title) ==
    mapping[CHOOSE i \in 1..Len(mapping) :
                /\ mapping[i].title = file_title
                /\ \A j \in (i + 1)..Len(mapping) : mapping[j].title # file_title].project

\* shutil.copy2(src, dst) for two different files
copy2(fs, src, dst) ==
    [dirs |-> fs.dirs,
     files |-> {f \in fs.files : f.path # dst}
               \cup {[path |-> dst, content |-> g.content] : g \in {f \in fs.files : f.path = src}}]

\* the loop of move_documents_to_projects: the tree after it, and the
\* exception that ended it; shutil.copy2 raises SameFileError when source and
\* target are one file
RECURSIVE MoveEach(_, _, _)
MoveEach(fs, mapping, document_files) ==
    IF document_files = <<>> THEN [tree |-> fs, error |-> "none"]
    ELSE LET file_path == Head(document_files)
             file_title == Stem(PathName(file_path))
         IN  IF InMapping(mapping, file_title)
             THEN LET target_dir == <<<<110, 101, 119, 95, 100, 105, 114>> (* "new_dir" *), MappedProject(mapping, file_title)>>
                      target_file == Append(target_dir, PathName(file_path))
                  IN  IF target_dir \in fs.dirs
                      THEN IF target_file = file_path
                           THEN [tree |-> fs, error |-> "SameFileError"]
                           ELSE MoveEach(copy2(fs, file_path, target_file), mapping,
                                         Tail(document_files))
                      ELSE MoveEach(fs, mapping, Tail(document_files))
             ELSE MoveEach(fs, mapping, Tail(document_files))

\* move_documents_by_csv
move_documents_by_csv(csv, fs, reversed) ==
    MoveEach(fs, read_csv_mapping(csv), find_document_files(fs, reversed))

\* sorted(list(projects))
RECURSIVE SortedStrings(_)
SortedStrings(strings) ==
    IF strings = {} THEN <<>>
    ELSE LET first == CHOOSE s \in strings : \A t \in strings \ {s} : StrLess(s, t)
         IN  <<first>> \o SortedStrings(strings \ {first})

\* extract_projects_from_csv
extract_projects_from_csv(csv) ==
    LET rows == TitleProjectRows(csv)
    IN  SortedStrings({rows[i].project : i \in 1..Len(rows)} \ {<<>>})

\* manage_project_structure: the file mkdir_csv, the directory new_dir and one
\* directory for each project
manage_project_structure(csv, fs) ==
    LET projects == extract_projects_from_csv(csv)
    IN  [dirs |-> fs.dirs \cup {<<<<110, 101, 119, 95, 100, 105, 114>> (* "new_dir" *)>>}
                  \cup {<<<<110, 101, 119, 95, 100, 105, 114>> (* "new_dir" *), projects[i]>> : i \in 1..Len(projects)},
         files |-> {f \in fs.files : f.path # <<<<109, 107, 100, 105, 114, 95, 99, 115, 118>> (* "mkdir_csv" *)>>}
                   \cup {[path |-> <<<<109, 107, 100, 105, 114, 95, 99, 115, 118>> (* "mkdir_csv" *)>>,
                          content |-> Join(<<>>, [i \in 1..Len(projects) |-> projects[i] \o <<10>>])]}]

-----------------------------------------------------------------------------
(* The inputs the specifications draw from *)

\* every sequence over alphabet of length at most n
TextsUpTo(alphabet, n) == UNION {[1..k -> alphabet] : k \in 0..n}

\* every concatenation of at most n of the pieces
RECURSIVE Concat(_)
Concat(parts) == IF parts = <<>> THEN <<>> ELSE Head(parts) \o Concat(Tail(parts))

PiecesUpTo(pieces, n) == {Concat(ps) : ps \in TextsUpTo(pieces, n)}

\* a letter in both cases, an ideograph, a separator of each of the two
\* substitutions, and a space
KwAlphabet == {97, 65, 20013, 12290, 44, 32} (* aA中。,  *)

KwSamples == {
    <<20013, 20013, 97, 44, 97, 97>> (* "中中a,aa" *), <<120, 12290, 121, 122, 44, 119>> (* "x。yz,w" *), <<30340, 30340, 32, 30340, 20102, 32, 20013, 25991, 32, 20013, 25991>> (* "的的 的了 中文 中文" *), <<119, 119, 119, 32, 104, 116, 116, 112, 32, 97, 98, 32, 104, 116, 109, 108>> (* "www http ab html" *),
    <<49, 50, 32, 51, 52, 32, 97, 98, 32, 65303, 65304>> (* "12 34 ab ７８" *), <<97, 98, 32, 99, 100, 32, 101, 102, 32, 103, 104, 32, 105, 106, 32, 107, 108>> (* "ab cd ef gh ij kl" *), <<20013, 25991, 20013, 25991, 20013, 25991, 20013, 25991, 20013, 25991, 20013, 25991>> (* "中文中文中文中文中文中文" *),
    <<45, 97, 98, 45, 32, 40, 99, 100, 41, 32, 39, 101, 102, 39, 32, 97, 98, 12290, 99, 100, 65307, 101, 102>> (* "-ab- (cd) 'ef' ab。cd；ef" *), <<122, 97, 98, 122, 32, 120, 120, 32, 97, 98>> (* "zabz xx ab" *) }

KwPads == {0, 195}

KwSamplePads == {0, 190, 495, 995, 19990, 24990, 99000}

NoFile == [stem |-> <<>>, suffix |-> <<>>, readable |-> FALSE, content |-> <<>>]

TitlePieces == {
    <<36229, 21697>> (* "超品" *), <<36130, 21153>> (* "财务" *), <<22521, 35757>> (* "培训" *), <<22242, 38431>> (* "团队" *), <<21830, 23478>> (* "商家" *), <<25991, 26723>> (* "文档" *), <<31995, 32479>> (* "系统" *), <<30452, 25773>> (* "直播" *) }

TitleSamples == {
    <<36229, 21697, 20013, 24515, 86, 50, 46, 48, 38656, 27714, 25991, 26723>> (* "超品中心V2.0需求文档" *), <<36130, 21153, 31995, 32479, 38656, 27714, 35828, 26126>> (* "财务系统需求说明" *), <<30452, 25773, 24179, 21488, 86, 49, 46, 48>> (* "直播平台V1.0" *), <<79, 110, 98, 111, 97, 114, 100, 25163, 20876>> (* "Onboard手册" *),
    <<36229, 21697, 19982, 36130, 21153>> (* "超品与财务" *), <<36130, 21153, 19982, 36229, 21697>> (* "财务与超品" *), <<21608, 25253>> (* "周报" *), <<25968, 25454, 20013, 24515>> (* "数据中心" *), <<120, 32, 86, 50>> (* "x V2" *) }

ProjectTexts == {
    <<120>> (* "x" *), <<25152, 23646, 39033, 30446, 65306, 36229, 21697, 20013, 24515>> (* "所属项目：超品中心" *), <<39033, 30446, 58, 118, 49, 46, 48, 32, 21551, 21160>> (* "项目:v1.0 启动" *), <<39033, 30446, 58, 30005, 21830, 50, 32, 21551, 21160>> (* "项目:电商2 启动" *),
    <<30452, 25773, 32, 30452, 25773, 32, 20027, 25773>> (* "直播 直播 主播" *), <<36130, 21153, 32, 39044, 31639, 32, 25104, 26412, 32, 32467, 31639>> (* "财务 预算 成本 结算" *), <<31649, 29702, 32, 27969, 31243, 32, 22521, 35757>> (* "管理 流程 培训" *), <<29992, 25143, 32, 20135, 21697, 32, 36816, 33829>> (* "用户 产品 运营" *),
    <<26143, 36873, 80, 82, 68, 32, 35828, 26126>> (* "星选PRD 说明" *), <<97, 98, 99, 32, 100, 101, 102>> (* "abc def" *) }

TypePieces == {
    <<38656, 27714>> (* "需求" *), <<25216, 26415>> (* "技术" *), <<27979, 35797, 29992, 20363>> (* "测试用例" *), <<35268, 33539>> (* "规范" *), <<24635, 32467>> (* "总结" *), <<31649, 29702>> (* "管理" *), <<80, 82, 68>> (* "PRD" *), <<112, 114, 100>> (* "prd" *), <<120, 32>> (* "x " *) }

TypeTitles == {
    <<>> (* "" *), <<27979, 35797, 35745, 21010>> (* "测试计划" *), <<38656, 27714, 35828, 26126>> (* "需求说明" *), <<80, 114, 100>> (* "Prd" *), <<35268, 33539>> (* "规范" *), <<21608, 25253>> (* "周报" *), <<36816, 32500, 25163, 20876>> (* "运维手册" *) }

TypeSamples == {
    <<27979, 35797, 29992, 20363, 32, 27979, 35797, 29992, 20363, 32, 27979, 35797, 29992, 20363, 32, 27979, 35797, 29992, 20363, 32, 27979, 35797, 29992, 20363, 32, 38656, 27714, 32, 25216, 26415, 32, 37096, 32626, 32, 31649, 29702>> (* "测试用例 测试用例 测试用例 测试用例 测试用例 需求 技术 部署 管理" *),
    <<65, 80, 73, 32, 97, 112, 105, 32, 66, 117, 103, 32, 81, 65, 32, 113, 97>> (* "API api Bug QA qa" *) }

\* n copies of the letter x
Filler(n) == [i \in 1..n |-> 120]

\* the lines a text of the summary specification is made of: lengths on both
\* sides of 15, 20 and 30, with and without a word of a pattern group or of
\* the importance list
SummaryLines == {
    <<>> (* "" *), <<32, 32>> (* "  " *), Filler(5), Filler(20), Filler(21), Filler(29), Filler(31),
    <<32972, 26223>> (* "背景" *) \o Filler(3), <<32972, 26223>> (* "背景" *) \o Filler(14), <<30446, 26631>> (* "目标" *) \o Filler(29),
    <<39033, 30446>> (* "项目" *) \o Filler(29), <<39033, 30446, 39033, 30446>> (* "项目项目" *) \o Filler(29), <<20869, 23481>> (* "内容" *) \o Filler(14) }

SummaryTexts ==
    {Join(<<10>>, ls) : ls \in TextsUpTo(SummaryLines, MaxParagraphs) \ {<<>>}}

\* seventeen lines of twenty characters: longer than 300 characters in all
LongShortLines == Join(<<10>>, [i \in 1..17 |-> Filler(19) \o <<96 + i>>])

SummaryTitles == {<<84>> (* "T" *), <<>> (* "" *)}

BlankTexts == TextsUpTo({32, 10, 9} (*  \n\t *) \cup {12288}, MaxBlankLen)

ProcessContents ==
    BlankTexts \cup ProjectTexts
        \cup {Filler(21), Filler(31), <<32972, 26223>> (* "背景" *) \o Filler(14), <<65, 65, 32, 97, 97>> (* "AA aa" *), <<97, 12290, 98, 44, 99>> (* "a。b,c" *)}

ProcessStems == {<<120>> (* "x" *), <<36130, 21153, 31995, 32479, 38656, 27714, 35828, 26126>> (* "财务系统需求说明" *), <<21608, 25253>> (* "周报" *), <<30452, 25773, 24179, 21488, 86, 49, 46, 48>> (* "直播平台V1.0" *)}

Suffixes == {<<46, 116, 120, 116>> (* ".txt" *), <<46, 84, 88, 84>> (* ".TXT" *), <<46, 100, 111, 99, 120>> (* ".docx" *), <<46, 112, 100, 102>> (* ".pdf" *)}

ProcessFiles ==
    [stem : ProcessStems, suffix : Suffixes, readable : BOOLEAN, content : ProcessContents]

RepeatFiles == {
    [stem |-> <<21608, 25253>> (* "周报" *), suffix |-> <<46, 116, 120, 116>> (* ".txt" *), readable |-> TRUE, content |-> <<31649, 29702, 32, 27969, 31243, 32, 22521, 35757>> (* "管理 流程 培训" *)],
    [stem |-> <<21608, 25253>> (* "周报" *), suffix |-> <<46, 116, 120, 116>> (* ".txt" *), readable |-> TRUE, content |-> <<39033, 30446, 58, 30005, 21830, 50, 32, 21551, 21160>> (* "项目:电商2 启动" *)],
    [stem |-> <<36130, 21153, 31995, 32479, 38656, 27714, 35828, 26126>> (* "财务系统需求说明" *), suffix |-> <<46, 100, 111, 99, 120>> (* ".docx" *), readable |-> TRUE, content |-> <<32>> (* " " *)] }

-----------------------------------------------------------------------------
(* The state machine *)

\* the environment and the attributes __init__ sets
Environment ==
    /\ HAS_DOCX \in BOOLEAN
    /\ HAS_JIEBA \in BOOLEAN
    /\ jieba_mode \in (IF HAS_JIEBA THEN JiebaModes ELSE {"none"})
    /\ document_types = InitialDocumentTypes
    /\ project_keywords = InitialProjectKeywords

FixedEnvironment ==
    /\ HAS_DOCX = FALSE
    /\ HAS_JIEBA = FALSE
    /\ jieba_mode = "none"
    /\ document_types = InitialDocumentTypes
    /\ project_keywords = InitialProjectKeywords

\* a base path with nothing under it
EmptyTree == [dirs |-> {}, files |-> {}]

\* a path that does not exist
NoDirectory == [exists |-> FALSE, is_dir |-> FALSE, entries |-> {}]

\* nothing was counted, read, reported, saved or moved
NoTools ==
    /\ counted_length = 0
    /\ keywords_count = 0
    /\ directory = NoDirectory
    /\ results = <<>>
    /\ reported = <<>>
    /\ csv_file = "absent"
    /\ tree = EmptyTree
    /\ mover_error = "none"

NoOutputs ==
    /\ project = <<>>
    /\ via = "none"
    /\ doc_type = <<>>
    /\ keywords = <<>>
    /\ summary = <<>>
    /\ result = <<>>
    /\ invoked = {}
    /\ history = <<>>
    /\ NoTools

\* a call of extract_keywords
CallExtractKeywords ==
    /\ pc = "extract_keywords"
    /\ keywords' = extract_keywords(text, pad)
    /\ invoked' = {"extract_keywords"}
    /\ pc' = "done"
    /\ UNCHANGED <<file, HAS_DOCX, HAS_JIEBA, jieba_mode, document_types,
                   project_keywords, title, text, pad, project, via, doc_type,
                   summary, result, history>>
    /\ UNCHANGED toolVars

\* a call of identify_project
CallIdentifyProject ==
    /\ pc = "identify_project"
    /\ \E r \in {IdentifyResult(project_keywords, HAS_JIEBA, jieba_mode, text, title)} :
        /\ project' = r.project
        /\ via' = r.via
    /\ invoked' = {"identify_project"}
    /\ pc' = "done"
    /\ UNCHANGED <<file, HAS_DOCX, HAS_JIEBA, jieba_mode, document_types,
                   project_keywords, title, text, pad, doc_type, keywords,
                   summary, result, history>>
    /\ UNCHANGED toolVars

\* a call of classify_document_type
CallClassifyDocumentType ==
    /\ pc = "classify_document_type"
    /\ doc_type' = classify_document_type(document_types, text, title)
    /\ invoked' = {"classify_document_type"}
    /\ pc' = "done"
    /\ UNCHANGED <<file, HAS_DOCX, HAS_JIEBA, jieba_mode, document_types,
                   project_keywords, title, text, pad, project, via, keywords,
                   summary, result, history>>
    /\ UNCHANGED toolVars

\* a call of generate_content_summary
CallGenerateContentSummary ==
    /\ pc = "generate_content_summary"
    /\ summary' = generate_content_summary(HAS_JIEBA, text, title)
    /\ invoked' = {"generate_content_summary"}
    /\ pc' = "done"
    /\ UNCHANGED <<file, HAS_DOCX, HAS_JIEBA, jieba_mode, document_types,
                   project_keywords, title, text, pad, project, via, doc_type,
                   keywords, result, history>>
    /\ UNCHANGED toolVars

\* process_document(file)
ProcessDocument ==
    /\ pc = "process_document"
    /\ \E tt \in {extract_text_from_file(file, HAS_DOCX)} :
        \E r \in {ProcessText(document_types, project_keywords, HAS_JIEBA,
                              jieba_mode, tt[1], tt[2])} :
          \E after \in {AttributesAfter(document_types, project_keywords,
                                        r.project, r.keywords)} :
            /\ title' = tt[1]
            /\ text' = tt[2]
            /\ project' = r.project
            /\ via' = r.via
            /\ doc_type' = r.doc_type
            /\ keywords' = r.keywords
            /\ summary' = r.summary
            /\ result' = r.result
            /\ invoked' = r.invoked
            /\ history' = Append(history, [file |-> file, result |-> r.result])
            /\ document_types' = after.document_types
            /\ project_keywords' = after.project_keywords
    /\ pc' = "done"
    /\ UNCHANGED <<file, HAS_DOCX, HAS_JIEBA, jieba_mode, pad>>
    /\ UNCHANGED toolVars

\* the caller hands the same tagger another file
NextDocument ==
    /\ pc = "done"
    /\ Len(history) < MaxCalls
    /\ file' \in RepeatFiles
    /\ pc' = "process_document"
    /\ UNCHANGED <<HAS_DOCX, HAS_JIEBA, jieba_mode, document_types,
                   project_keywords, title, text, pad, project, via, doc_type,
                   keywords, summary, result, invoked, history>>
    /\ UNCHANGED toolVars

\* one tagger processes up to MaxCalls files, one after the other
Init ==
    /\ Environment
    /\ file \in RepeatFiles
    /\ title = <<>> /\ text = <<>> /\ pad = 0
    /\ pc = "process_document"
    /\ NoOutputs

Next == ProcessDocument \/ NextDocument

Spec == Init /\ [][Next]_vars

\* one file is processed, drawn from a wide set
InitProcess ==
    /\ Environment
    /\ file \in ProcessFiles
    /\ title = <<>> /\ text = <<>> /\ pad = 0
    /\ pc = "process_document"
    /\ NoOutputs

NextProcess == ProcessDocument

SpecProcess == InitProcess /\ [][NextProcess]_vars

\* extract_keywords is applied to one text
InitKeywords ==
    /\ FixedEnvironment
    /\ file = NoFile /\ title = <<>>
    /\ \/ text \in TextsUpTo(KwAlphabet, MaxKwLen) /\ pad \in KwPads
       \/ text \in KwSamples /\ pad \in KwSamplePads
    /\ pc = "extract_keywords"
    /\ NoOutputs

NextKeywords == CallExtractKeywords

SpecKeywords == InitKeywords /\ [][NextKeywords]_vars

\* identify_project is applied to one title and text
InitProject ==
    /\ Environment
    /\ file = NoFile /\ pad = 0
    /\ title \in PiecesUpTo(TitlePieces, MaxTitlePieces) \cup TitleSamples
    /\ text \in ProjectTexts
    /\ pc = "identify_project"
    /\ NoOutputs

NextProject == CallIdentifyProject

SpecProject == InitProject /\ [][NextProject]_vars

\* classify_document_type is applied to one title and text
InitType ==
    /\ FixedEnvironment
    /\ file = NoFile /\ pad = 0
    /\ title \in TypeTitles
    /\ text \in PiecesUpTo(TypePieces, MaxTypePieces) \cup TypeSamples
    /\ pc = "classify_document_type"
    /\ NoOutputs

NextType == CallClassifyDocumentType

SpecType == InitType /\ [][NextType]_vars

\* generate_content_summary is applied to one title and text
InitSummary ==
    /\ HAS_DOCX = FALSE
    /\ HAS_JIEBA \in BOOLEAN
    /\ jieba_mode = "none"
    /\ document_types = InitialDocumentTypes
    /\ project_keywords = InitialProjectKeywords
    /\ file = NoFile /\ pad = 0
    /\ title \in SummaryTitles
    /\ text \in SummaryTexts \cup {LongShortLines}
    /\ pc = "generate_content_summary"
    /\ NoOutputs

NextSummary == CallGenerateContentSummary

SpecSummary == InitSummary /\ [][NextSummary]_vars


-----------------------------------------------------------------------------
(* _get_keywords_count on its own *)

\* the lengths _get_keywords_count is applied to: every multiple of
\* LengthStep up to MaxLengthSteps steps, and both sides of each threshold
LengthStep == 50

CountThresholds ==
    {200, 500, 1000, 2000, 3000, 5000, 8000, 12000, 20000, 27000}

CountLengths ==
    {LengthStep * k : k \in 0..MaxLengthSteps}
        \cup {n - 1 : n \in CountThresholds} \cup CountThresholds

\* a call of _get_keywords_count
CallGetKeywordsCount ==
    /\ pc = "_get_keywords_count"
    /\ keywords_count' = _get_keywords_count(counted_length)
    /\ pc' = "done"
    /\ UNCHANGED <<file, HAS_DOCX, HAS_JIEBA, jieba_mode, document_types,
                   project_keywords, title, text, pad, project, via, doc_type,
                   keywords, summary, result, invoked, history>>
    /\ UNCHANGED <<counted_length, directory, results, reported, csv_file,
                   tree, mover_error>>

\* the tagger and its caller at rest, for the specifications of the tools
TaggerIdle ==
    /\ FixedEnvironment
    /\ file = NoFile /\ title = <<>> /\ text = <<>> /\ pad = 0
    /\ project = <<>>
    /\ via = "none"
    /\ doc_type = <<>>
    /\ keywords = <<>>
    /\ summary = <<>>
    /\ result = <<>>
    /\ invoked = {}
    /\ history = <<>>

InitCount ==
    /\ TaggerIdle
    /\ pc = "_get_keywords_count"
    /\ counted_length \in CountLengths
    /\ keywords_count = 0
    /\ directory = NoDirectory
    /\ results = <<>>
    /\ reported = <<>>
    /\ csv_file = "absent"
    /\ tree = EmptyTree
    /\ mover_error = "none"

NextCount == CallGetKeywordsCount

SpecCount == InitCount /\ [][NextCount]_vars

-----------------------------------------------------------------------------
(* save_results_to_csv on its own *)

\* the records saved: the placeholder of an empty document, two records of one
\* key that differ in the summary, and a title that csv.writer has to quote
CsvRecords == {
    format_output(<<97>> (* "a" *), <<26410, 30693, 39033, 30446>> (* "未知项目" *), <<30693, 35782, 31867, 25991, 26723>> (* "知识类文档" *), <<>>, <<25991, 26723, 20869, 23481, 20026, 31354>> (* "文档内容为空" *)),
    format_output(<<97>> (* "a" *), <<25216, 26415, 24179, 21488, 39033, 30446>> (* "技术平台项目" *), <<30693, 35782, 31867, 25991, 26723>> (* "知识类文档" *), <<<<97, 98, 99>> (* "abc" *)>>, <<115, 49>> (* "s1" *)),
    format_output(<<97>> (* "a" *), <<25216, 26415, 24179, 21488, 39033, 30446>> (* "技术平台项目" *), <<30693, 35782, 31867, 25991, 26723>> (* "知识类文档" *), <<<<97, 98, 99>> (* "abc" *)>>, <<108, 49, 10, 108, 50>> (* "l1\nl2" *)),
    format_output(<<98, 44, 34, 99>> (* "b,"c" *), <<26410, 30693, 39033, 30446>> (* "未知项目" *), <<30693, 35782, 31867, 25991, 26723>> (* "知识类文档" *), <<>>, <<25991, 26723, 20869, 23481, 20026, 31354>> (* "文档内容为空" *)) }

Batches == TextsUpTo(CsvRecords, MaxBatch)

\* a call of save_results_to_csv with some batch
SaveResults ==
    /\ pc = "save_results_to_csv"
    /\ \E batch \in Batches : csv_file' = save_results_to_csv(batch, csv_file)
    /\ UNCHANGED <<taggerVars, counted_length, keywords_count, directory,
                   results, reported, tree, mover_error>>

InitCsv ==
    /\ TaggerIdle
    /\ pc = "save_results_to_csv"
    /\ counted_length = 0
    /\ keywords_count = 0
    /\ directory = NoDirectory
    /\ results = <<>>
    /\ reported = <<>>
    /\ csv_file = "absent"
    /\ tree = EmptyTree
    /\ mover_error = "none"

NextCsv == SaveResults

SpecCsv == InitCsv /\ [][NextCsv]_vars

-----------------------------------------------------------------------------
(* process_directory on its own *)

\* the entries a directory is made of, none of them raising
EntryPool == {
    [file |-> [stem |-> <<97>> (* "a" *), suffix |-> <<46, 116, 120, 116>> (* ".txt" *), readable |-> TRUE, content |-> <<120>> (* "x" *)],
     is_dir |-> FALSE, raises |-> <<>>],
    [file |-> [stem |-> <<97>> (* "a" *), suffix |-> <<46, 100, 111, 99, 120>> (* ".docx" *), readable |-> TRUE, content |-> <<32>> (* " " *)],
     is_dir |-> FALSE, raises |-> <<>>],
    [file |-> [stem |-> <<98>> (* "b" *), suffix |-> <<46, 116, 120, 116>> (* ".txt" *), readable |-> TRUE, content |-> <<31649, 29702, 32, 27969, 31243, 32, 22521, 35757>> (* "管理 流程 培训" *)],
     is_dir |-> FALSE, raises |-> <<>>],
    [file |-> [stem |-> <<66>> (* "B" *), suffix |-> <<46, 84, 88, 84>> (* ".TXT" *), readable |-> TRUE, content |-> <<120>> (* "x" *)],
     is_dir |-> FALSE, raises |-> <<>>],
    [file |-> [stem |-> <<99>> (* "c" *), suffix |-> <<46, 112, 100, 102>> (* ".pdf" *), readable |-> TRUE, content |-> <<120>> (* "x" *)],
     is_dir |-> FALSE, raises |-> <<>>],
    [file |-> [stem |-> <<115, 117, 98>> (* "sub" *), suffix |-> <<46, 116, 120, 116>> (* ".txt" *), readable |-> FALSE, content |-> <<>>],
     is_dir |-> TRUE, raises |-> <<>>],
    [file |-> [stem |-> <<21608, 25253>> (* "周报" *), suffix |-> <<46, 100, 111, 99, 120>> (* ".docx" *), readable |-> FALSE, content |-> <<>>],
     is_dir |-> FALSE, raises |-> <<>>],
    [file |-> [stem |-> <<46, 116, 120, 116>> (* ".txt" *), suffix |-> <<>>, readable |-> TRUE, content |-> <<97, 98, 99, 32, 100, 101, 102>> (* "abc def" *)],
     is_dir |-> FALSE, raises |-> <<>>] }

ErrorTexts == {<<>>, <<98, 111, 111, 109>> (* "boom" *)}

\* the directories of at most MaxEntries entries: no two entries of one
\* name, and for each entry whether process_document raises on it
Directories ==
    UNION {{[exists |-> TRUE, is_dir |-> TRUE,
             entries |-> {[e EXCEPT !.raises = r[e]] : e \in S}] : r \in [S -> ErrorTexts]} :
            S \in {T \in SUBSET EntryPool : Cardinality(T) <= MaxEntries}}

\* a path that is a file
NotADirectory == [exists |-> TRUE, is_dir |-> FALSE, entries |-> {}]

\* a call of process_directory
ProcessDirectory ==
    /\ pc = "process_directory"
    /\ results' = process_directory(document_types, project_keywords, HAS_DOCX,
                                    HAS_JIEBA, jieba_mode, directory)
    /\ pc' = "done"
    /\ UNCHANGED <<file, HAS_DOCX, HAS_JIEBA, jieba_mode, document_types,
                   project_keywords, title, text, pad, project, via, doc_type,
                   keywords, summary, result, invoked, history>>
    /\ UNCHANGED <<counted_length, keywords_count, directory, reported,
                   csv_file, tree, mover_error>>

InitDirectory ==
    /\ HAS_DOCX \in BOOLEAN
    /\ HAS_JIEBA = FALSE
    /\ jieba_mode = "none"
    /\ document_types = InitialDocumentTypes
    /\ project_keywords = InitialProjectKeywords
    /\ file = NoFile /\ title = <<>> /\ text = <<>> /\ pad = 0
    /\ project = <<>>
    /\ via = "none"
    /\ doc_type = <<>>
    /\ keywords = <<>>
    /\ summary = <<>>
    /\ result = <<>>
    /\ invoked = {}
    /\ history = <<>>
    /\ pc = "process_directory"
    /\ counted_length = 0
    /\ keywords_count = 0
    /\ directory \in Directories \cup {NoDirectory, NotADirectory}
    /\ results = <<>>
    /\ reported = <<>>
    /\ csv_file = "absent"
    /\ tree = EmptyTree
    /\ mover_error = "none"

NextDirectory == ProcessDirectory

SpecDirectory == InitDirectory /\ [][NextDirectory]_vars

-----------------------------------------------------------------------------
(* _infer_project_from_content on its own *)

\* words of the coarse vocabularies, some of them also in a domain bucket
InferPieces == {
    <<19994, 21153>> (* "业务" *), <<21830, 19994>> (* "商业" *), <<25968, 25454>> (* "数据" *), <<22521, 35757, 35838>> (* "培训课" *), <<21046, 24230>> (* "制度" *), <<27969, 31243>> (* "流程" *), <<21151, 33021>> (* "功能" *), <<97, 98, 99>> (* "abc" *) }

InferTexts ==
    {Join(<<32>>, ps) : ps \in TextsUpTo(InferPieces, MaxInferPieces)}
        \cup {<<19994, 21153, 32, 21830, 19994, 32, 25968, 25454>> (* "业务 商业 数据" *), <<25968, 25454, 32, 21151, 33021, 32, 19994, 21153>> (* "数据 功能 业务" *), <<19994, 21153, 65292, 21830, 19994, 12290, 25968, 25454, 32, 22242, 38431, 32, 22242, 38431>> (* "业务，商业。数据 团队 团队" *)}

InferTitles == {<<>> (* "" *), <<21608, 25253>> (* "周报" *), <<22521, 35757, 25163, 20876>> (* "培训手册" *)}

\* a call of _infer_project_from_content; via records the branch that returned
CallInferProject ==
    /\ pc = "_infer_project_from_content"
    /\ \E r \in {InferResult(HAS_JIEBA, jieba_mode, text, title)} :
        /\ project' = r.project
        /\ via' = r.branch
    /\ invoked' = {"_infer_project_from_content"}
    /\ pc' = "done"
    /\ UNCHANGED <<file, HAS_DOCX, HAS_JIEBA, jieba_mode, document_types,
                   project_keywords, title, text, pad, doc_type, keywords,
                   summary, result, history>>
    /\ UNCHANGED toolVars

InitInfer ==
    /\ Environment
    /\ file = NoFile /\ pad = 0
    /\ title \in InferTitles
    /\ text \in InferTexts
    /\ pc = "_infer_project_from_content"
    /\ NoOutputs

NextInfer == CallInferProject

SpecInfer == InitInfer /\ [][NextInfer]_vars

-----------------------------------------------------------------------------
(* main: the path is missing, a directory, or a single file *)

\* the path does not exist: main prints an error and exits
MainExit ==
    /\ pc = "main"
    /\ ~directory.exists
    /\ pc' = "exit"
    /\ UNCHANGED <<file, HAS_DOCX, HAS_JIEBA, jieba_mode, document_types,
                   project_keywords, title, text, pad, project, via, doc_type,
                   keywords, summary, result, invoked, history>>
    /\ UNCHANGED toolVars

\* the path is a directory: process it, print the table, save the results
MainDirectory ==
    /\ pc = "main"
    /\ directory.exists /\ directory.is_dir
    /\ \E rs \in {process_directory(document_types, project_keywords, HAS_DOCX,
                                    HAS_JIEBA, jieba_mode, directory)} :
        /\ results' = rs
        /\ reported' = Report(rs)
        /\ csv_file' = IF rs # <<>> THEN save_results_to_csv(rs, csv_file) ELSE csv_file
    /\ pc' = "done"
    /\ UNCHANGED <<file, HAS_DOCX, HAS_JIEBA, jieba_mode, document_types,
                   project_keywords, title, text, pad, project, via, doc_type,
                   keywords, summary, result, invoked, history>>
    /\ UNCHANGED <<counted_length, keywords_count, directory, tree, mover_error>>

\* the path is a file: process it and save its record
MainFile ==
    /\ pc = "main"
    /\ directory.exists /\ ~directory.is_dir
    /\ \E tt \in {extract_text_from_file(file, HAS_DOCX)} :
        \E r \in {ProcessText(document_types, project_keywords, HAS_JIEBA,
                              jieba_mode, tt[1], tt[2])} :
            /\ title' = tt[1]
            /\ text' = tt[2]
            /\ project' = r.project
            /\ via' = r.via
            /\ doc_type' = r.doc_type
            /\ keywords' = r.keywords
            /\ summary' = r.summary
            /\ result' = r.result
            /\ invoked' = r.invoked
            /\ history' = Append(history, [file |-> file, result |-> r.result])
            /\ csv_file' = save_results_to_csv(<<r.result>>, csv_file)
    /\ pc' = "done"
    /\ UNCHANGED <<file, HAS_DOCX, HAS_JIEBA, jieba_mode, document_types,
                   project_keywords, pad>>
    /\ UNCHANGED <<counted_length, keywords_count, directory, results, reported,
                   tree, mover_error>>

InitMain ==
    /\ HAS_DOCX \in BOOLEAN
    /\ HAS_JIEBA = FALSE
    /\ jieba_mode = "none"
    /\ document_types = InitialDocumentTypes
    /\ project_keywords = InitialProjectKeywords
    /\ \/ directory \in Directories \cup {NoDirectory} /\ file = NoFile
       \/ directory = NotADirectory /\ file \in RepeatFiles
    /\ title = <<>> /\ text = <<>> /\ pad = 0
    /\ project = <<>>
    /\ via = "none"
    /\ doc_type = <<>>
    /\ keywords = <<>>
    /\ summary = <<>>
    /\ result = <<>>
    /\ invoked = {}
    /\ history = <<>>
    /\ pc = "main"
    /\ counted_length = 0
    /\ keywords_count = 0
    /\ results = <<>>
    /\ reported = <<>>
    /\ csv_file = "absent"
    /\ tree = EmptyTree
    /\ mover_error = "none"

NextMain == MainExit \/ MainDirectory \/ MainFile

SpecMain == InitMain /\ [][NextMain]_vars

-----------------------------------------------------------------------------
(* manage_project_structure, then move_documents_by_csv twice *)

\* the documents under the base path before anything was moved
MoverFiles == {
    [path |-> <<<<97, 46, 116, 120, 116>> (* "a.txt" *)>>, content |-> <<65>> (* "A" *)],
    [path |-> <<<<97, 46, 100, 111, 99, 120>> (* "a.docx" *)>>, content |-> <<66>> (* "B" *)],
    [path |-> <<<<100, 111, 99, 117, 109, 101, 110, 116, 115>> (* "documents" *), <<97, 46, 116, 120, 116>> (* "a.txt" *)>>, content |-> <<67>> (* "C" *)],
    [path |-> <<<<100, 111, 99, 117, 109, 101, 110, 116, 115>> (* "documents" *), <<99, 46, 116, 120, 116>> (* "c.txt" *)>>, content |-> <<68>> (* "D" *)],
    [path |-> <<<<115, 117, 98>> (* "sub" *), <<99, 46, 100, 111, 99, 120>> (* "c.docx" *)>>, content |-> <<69>> (* "E" *)],
    [path |-> <<<<122, 46, 116, 120, 116>> (* "z.txt" *)>>, content |-> <<70>> (* "F" *)] }

\* a tree holds some of the documents and the directories they are in
MoverTrees ==
    {[dirs |-> {SubSeq(f.path, 1, Len(f.path) - 1) : f \in fs} \ {<<>>}, files |-> fs] :
        fs \in SUBSET MoverFiles}

\* document_tags.csv as save_results_to_csv wrote it
MoverCsvs == {
    save_results_to_csv(<<
        format_output(<<97>> (* "a" *), <<25216, 26415, 24179, 21488, 39033, 30446>> (* "技术平台项目" *), <<30693, 35782, 31867, 25991, 26723>> (* "知识类文档" *), <<<<97, 98, 99>> (* "abc" *)>>, <<115, 49>> (* "s1" *)),
        format_output(<<99>> (* "c" *), <<26410, 30693, 39033, 30446>> (* "未知项目" *), <<30693, 35782, 31867, 25991, 26723>> (* "知识类文档" *), <<>>, <<25991, 26723, 20869, 23481, 20026, 31354>> (* "文档内容为空" *))>>, "absent"),
    save_results_to_csv(<<
        format_output(<<97>> (* "a" *), <<25216, 26415, 24179, 21488, 39033, 30446>> (* "技术平台项目" *), <<30693, 35782, 31867, 25991, 26723>> (* "知识类文档" *), <<<<97, 98, 99>> (* "abc" *)>>, <<115, 49>> (* "s1" *))>>, "absent"),
    save_results_to_csv(<<
        format_output(<<99>> (* "c" *), <<26410, 30693, 39033, 30446>> (* "未知项目" *), <<30693, 35782, 31867, 25991, 26723>> (* "知识类文档" *), <<>>, <<25991, 26723, 20869, 23481, 20026, 31354>> (* "文档内容为空" *)),
        format_output(<<97>> (* "a" *), <<36130, 21153, 31649, 29702, 39033, 30446>> (* "财务管理项目" *), <<30693, 35782, 31867, 25991, 26723>> (* "知识类文档" *), <<>>, <<115, 50>> (* "s2" *)),
        format_output(<<97>> (* "a" *), <<25216, 26415, 24179, 21488, 39033, 30446>> (* "技术平台项目" *), <<30693, 35782, 31867, 25991, 26723>> (* "知识类文档" *), <<<<97, 98, 99>> (* "abc" *)>>, <<115, 49>> (* "s1" *))>>, "absent") }

\* a call of manage_project_structure
ManageProjectStructure ==
    /\ pc = "manage_project_structure"
    /\ tree' = manage_project_structure(csv_file, tree)
    /\ pc' = "move_documents_by_csv"
    /\ UNCHANGED <<file, HAS_DOCX, HAS_JIEBA, jieba_mode, document_types,
                   project_keywords, title, text, pad, project, via, doc_type,
                   keywords, summary, result, invoked, history>>
    /\ UNCHANGED <<counted_length, keywords_count, directory, results, reported,
                   csv_file, mover_error>>

\* a call of move_documents_by_csv, the first or the second
MoveDocumentsByCsv ==
    /\ pc \in {"move_documents_by_csv", "move_documents_by_csv_again"}
    /\ \E reversed \in BOOLEAN :
        \E r \in {move_documents_by_csv(csv_file, tree, reversed)} :
            /\ tree' = r.tree
            /\ mover_error' = r.error
            /\ pc' = IF r.error # "none" THEN "failed"
                     ELSE IF pc = "move_documents_by_csv" THEN "move_documents_by_csv_again"
                     ELSE "done"
    /\ UNCHANGED <<file, HAS_DOCX, HAS_JIEBA, jieba_mode, document_types,
                   project_keywords, title, text, pad, project, via, doc_type,
                   keywords, summary, result, invoked, history>>
    /\ UNCHANGED <<counted_length, keywords_count, directory, results, reported,
                   csv_file>>

InitMover ==
    /\ TaggerIdle
    /\ pc = "manage_project_structure"
    /\ counted_length = 0
    /\ keywords_count = 0
    /\ directory = NoDirectory
    /\ results = <<>>
    /\ reported = <<>>
    /\ csv_file \in MoverCsvs
    /\ tree \in MoverTrees
    /\ mover_error = "none"

NextMover == ManageProjectStructure \/ MoveDocumentsByCsv

SpecMover == InitMover /\ [][NextMover]_vars

-----------------------------------------------------------------------------
(* The properties *)

\* the first position of sub in s, 0 when sub is not in s
Find(sub, s) ==
    IF Contains(sub, s)
    THEN CHOOSE i \in 1..(Len(s) - Len(sub) + 1) :
            /\ OccursAt(sub, s, i)
            /\ \A j \in 1..(i - 1) : ~OccursAt(sub, s, j)
    ELSE 0

Range(seq) == {seq[i] : i \in 1..Len(seq)}

Components ==
    {"identify_project", "classify_document_type", "extract_keywords",
     "generate_content_summary"}

\* C1: for every title and every blank or whitespace-only text,
\* process_document returns exactly the placeholder record (project 未知项目,
\* document type 知识类文档, no keyword, summary 文档内容为空) and calls none of
\* identify_project, classify_document_type, extract_keywords and
\* generate_content_summary
C1_BlankTextPlaceholder ==
    (pc = "done" /\ \A i \in 1..Len(text) : IsSpace(text[i])) =>
        /\ result = [title |-> title, project |-> <<26410, 30693, 39033, 30446>> (* "未知项目" *),
                     keywords_field |-> <<30693, 35782, 31867, 25991, 26723, 59, 32>> (* "知识类文档; " *), summary |-> <<25991, 26723, 20869, 23481, 20026, 31354>> (* "文档内容为空" *)]
        /\ project = <<26410, 30693, 39033, 30446>> (* "未知项目" *)
        /\ doc_type = <<30693, 35782, 31867, 25991, 26723>> (* "知识类文档" *)
        /\ keywords = <<>>
        /\ summary = <<25991, 26723, 20869, 23481, 20026, 31354>> (* "文档内容为空" *)
        /\ invoked \cap Components = {}

\* a file with a title was read and its text is whitespace, not empty
C1_Witness ==
    /\ pc = "done"
    /\ title # <<>>
    /\ text # <<>>
    /\ \A i \in 1..Len(text) : IsSpace(text[i])
    /\ result.project = <<26410, 30693, 39033, 30446>> (* "未知项目" *)

\* C2: every keyword extract_keywords returns is a literal, case-sensitive
\* substring of the text, whichever generator produced it and after the
\* candidate's edges were trimmed
C2_KeywordsAreSubstrings ==
    pc = "done" =>
        \A i \in 1..Len(keywords) :
            \E p \in 1..Len(text) :
                /\ p + Len(keywords[i]) - 1 <= Len(text)
                /\ SubSeq(text, p, p + Len(keywords[i]) - 1) = keywords[i]

\* a keyword was returned that is no candidate as generated: its edges were
\* trimmed
C2_Witness ==
    /\ pc = "done"
    /\ \E i \in 1..Len(keywords) : keywords[i] \notin Range(candidate_words(text))

\* the cap of C3, a step function of the text's length
ClaimCap(length) ==
    IF length < 200 THEN 2
    ELSE IF length < 500 THEN 3
    ELSE IF length < 1000 THEN 5
    ELSE IF length < 2000 THEN 8
    ELSE IF length < 3000 THEN 10
    ELSE IF length < 5000 THEN 12
    ELSE IF length < 8000 THEN 15
    ELSE IF length < 12000 THEN 18
    ELSE IF length < 20000 THEN 22
    ELSE IF (length \div 1000) + 3 < 30 THEN (length \div 1000) + 3 ELSE 30

TrimmedCandidates(t) ==
    Once({[i \in 1..Len(cands) |-> StripWord(cands[i])] :
            cands \in {candidate_words(t)}})

Occurrences(words, w) == Cardinality({k \in 1..Len(words) : words[k] = w})

FirstIndex(words, w) ==
    CHOOSE k \in 1..Len(words) :
        words[k] = w /\ \A m \in 1..(k - 1) : words[m] # w

\* C4 as amended: two keywords of equal frequency appear in the order of
\* their first occurrence among the candidates (the words of the first
\* split, then those of the second, then the ideograph runs)
C4_TiesInCandidateOrder ==
    pc = "done" =>
        \E words \in {TrimmedCandidates(text)} :
            \A i, j \in 1..Len(keywords) :
                (i < j /\ Occurrences(words, keywords[i]) = Occurrences(words, keywords[j]))
                    => FirstIndex(words, keywords[i]) < FirstIndex(words, keywords[j])

\* two keywords of equal frequency, the one returned first standing later
\* in the text
C4_Witness ==
    /\ pc = "done"
    /\ \E words \in {TrimmedCandidates(text)} :
        \E i, j \in 1..Len(keywords) :
            /\ i < j
            /\ Occurrences(words, keywords[i]) = Occurrences(words, keywords[j])
            /\ Find(keywords[i], text) > Find(keywords[j], text)

\* C4 as stated: two keywords of equal frequency appear in the order of
\* their first position in the text
C4_TiesInTextOrder ==
    pc = "done" =>
        \E words \in {TrimmedCandidates(text)} :
            \A i, j \in 1..Len(keywords) :
                (i < j /\ Occurrences(words, keywords[i]) = Occurrences(words, keywords[j]))
                    => Find(keywords[i], text) <= Find(keywords[j], text)

\* the title tiers of C5 in their declared order
ClaimTiers == <<
    [words |-> <<<<36229, 21697, 20013, 24515>> (* "超品中心" *), <<36229, 21697>> (* "超品" *)>>, project |-> <<36229, 21697, 20013, 24515, 39033, 30446>> (* "超品中心项目" *)],
    [words |-> <<<<36130, 21153>> (* "财务" *), <<32467, 31639>> (* "结算" *), <<19994, 32489>> (* "业绩" *), <<27611, 21033>> (* "毛利" *)>>, project |-> <<36130, 21153, 31649, 29702, 39033, 30446>> (* "财务管理项目" *)],
    [words |-> <<<<26032, 20154>> (* "新人" *), <<20837, 32844>> (* "入职" *), <<22521, 35757>> (* "培训" *)>>, project |-> <<20154, 21147, 36164, 28304, 39033, 30446>> (* "人力资源项目" *)],
    [words |-> <<<<37096, 38376>> (* "部门" *), <<32452, 32455>> (* "组织" *), <<22242, 38431>> (* "团队" *), <<32844, 36131>> (* "职责" *)>>, project |-> <<32452, 32455, 31649, 29702, 39033, 30446>> (* "组织管理项目" *)],
    [words |-> <<<<21830, 23478>> (* "商家" *), <<26143, 36873>> (* "星选" *), <<36965, 26395, 26143, 36873>> (* "遥望星选" *)>>, project |-> <<36229, 21697, 20013, 24515, 39033, 30446>> (* "超品中心项目" *)],
    [words |-> <<<<25991, 26723>> (* "文档" *), <<20998, 31867>> (* "分类" *), <<25910, 38598>> (* "收集" *), <<30693, 35782>> (* "知识" *)>>, project |-> <<30693, 35782, 31649, 29702, 39033, 30446>> (* "知识管理项目" *)] >>

TierMatches(k, title_lower) ==
    \E w \in 1..Len(ClaimTiers[k].words) : Contains(ClaimTiers[k].words[w], title_lower)

\* C5: when the lower-cased title holds a trigger word of a tier,
\* identify_project returns the project of the first such tier, whatever the
\* text, and neither explicit-name extraction nor scoring decides
C5_TitleTierFirst ==
    pc = "done" =>
        \A k \in 1..Len(ClaimTiers) :
            (/\ TierMatches(k, Lower(title))
             /\ \A m \in 1..(k - 1) : ~TierMatches(m, Lower(title)))
                => project = ClaimTiers[k].project /\ via = "title_tier"

\* a title that names 财务 before 超品, with a text that names another project
C5_Witness ==
    /\ pc = "done"
    /\ Contains(<<36130, 21153>> (* "财务" *), title)
    /\ Contains(<<36229, 21697>> (* "超品" *), title)
    /\ Find(<<36130, 21153>> (* "财务" *), title) < Find(<<36229, 21697>> (* "超品" *), title)
    /\ text = <<39033, 30446, 58, 30005, 21830, 50, 32, 21551, 21160>> (* "项目:电商2 启动" *)
    /\ project = <<36229, 21697, 20013, 24515, 39033, 30446>> (* "超品中心项目" *)

\* C6 as amended: for the title 财务系统需求说明 identify_project returns
\* 财务管理项目 from the title check for 财务; explicit-name extraction, which
\* is not reached, would capture 财务系统 and standardize it to the same name
C6_FinanceTitleByTier ==
    (pc = "done" /\ title = <<36130, 21153, 31995, 32479, 38656, 27714, 35828, 26126>> (* "财务系统需求说明" *)) =>
        /\ project = <<36130, 21153, 31649, 29702, 39033, 30446>> (* "财务管理项目" *)
        /\ via = "title_tier"
        /\ TitleCore(title) = <<36130, 21153, 31995, 32479>> (* "财务系统" *)
        /\ _standardize_project_name(<<36130, 21153, 31995, 32479>> (* "财务系统" *)) = <<36130, 21153, 31649, 29702, 39033, 30446>> (* "财务管理项目" *)

\* identify_project was applied to that title, with a text that names a project
C6_Witness ==
    /\ pc = "done"
    /\ title = <<36130, 21153, 31995, 32479, 38656, 27714, 35828, 26126>> (* "财务系统需求说明" *)
    /\ text = <<25152, 23646, 39033, 30446, 65306, 36229, 21697, 20013, 24515>> (* "所属项目：超品中心" *)
    /\ project = <<36130, 21153, 31649, 29702, 39033, 30446>> (* "财务管理项目" *)

\* C6 as stated: for the title 财务系统需求说明 the result 财务管理项目 is
\* produced by the explicit-name extraction step
C6_FinanceTitleByExtraction ==
    (pc = "done" /\ title = <<36130, 21153, 31995, 32479, 38656, 27714, 35828, 26126>> (* "财务系统需求说明" *)) =>
        /\ project = <<36130, 21153, 31649, 29702, 39033, 30446>> (* "财务管理项目" *)
        /\ via = "title_pattern"

\* the score of the k-th document type for the title and text of the state
TypeScore(k) ==
    KeywordScore(InitialDocumentTypes[k].keywords, Lower(title \o <<32>> \o text),
                 Lower(title), 5)

\* C7: classify_document_type returns the type of the greatest score, the
\* first declared among those of equal score, and 知识类文档 when every score
\* is zero
C7_MaxScoreFirstDeclared ==
    pc = "done" =>
        \E scores \in {[k \in 1..Len(InitialDocumentTypes) |-> TypeScore(k)]} :
            IF \A k \in 1..Len(scores) : scores[k] = 0
            THEN doc_type = <<30693, 35782, 31867, 25991, 26723>> (* "知识类文档" *)
            ELSE \E k \in 1..Len(scores) :
                    /\ doc_type = InitialDocumentTypes[k].name
                    /\ \A m \in 1..Len(scores) : scores[m] <= scores[k]
                    /\ \A m \in 1..(k - 1) : scores[m] < scores[k]

\* two types share the greatest score, which is not zero, and the one
\* declared first was returned
C7_Witness ==
    /\ pc = "done"
    /\ \E scores \in {[k \in 1..Len(InitialDocumentTypes) |-> TypeScore(k)]} :
        \E k, n \in 1..Len(scores) :
            /\ k < n
            /\ scores[k] > 0
            /\ scores[k] = scores[n]
            /\ \A m \in 1..Len(scores) : scores[m] <= scores[k]
            /\ doc_type = InitialDocumentTypes[k].name

GroupWords ==
    background_patterns \o objective_patterns \o content_patterns
        \o solution_patterns \o result_patterns

\* no paragraph of the state's text holds a word of the five pattern groups
NoParagraphInGroup ==
    \A i \in 1..Len(Paragraphs(text)) :
        \A w \in 1..Len(GroupWords) : ~Contains(GroupWords[w], Lower(Paragraphs(text)[i]))

TruncationFallback ==
    <<12304, 25991, 26723, 27010, 36848, 12305, 26412, 25991, 26723, 25551, 36848, 20102>> (* "【文档概述】本文档描述了" *) \o title \o <<30456, 20851, 20869, 23481, 65306>> (* "相关内容：" *)
        \o SubSeq(text, 1, IF Len(text) < 300 THEN Len(text) ELSE 300) \o <<46, 46, 46>> (* "..." *)

EndsWithEllipsis(s) == Len(s) >= 3 /\ SubSeq(s, Len(s) - 2, Len(s)) = <<46, 46, 46>> (* "..." *)

\* C9 as amended: for a text that is not blank, in which no paragraph matches
\* a pattern group and every paragraph has at most 20 characters,
\* generate_content_summary returns the truncation fallback, which ends in "..."
C9_ShortParagraphsTruncated ==
    (/\ pc = "done"
     /\ \E i \in 1..Len(text) : ~IsSpace(text[i])
     /\ NoParagraphInGroup
     /\ \A i \in 1..Len(Paragraphs(text)) : Len(Paragraphs(text)[i]) <= 20)
        => summary = TruncationFallback /\ EndsWithEllipsis(summary)

\* such a text with a paragraph of exactly 20 characters
C9_Witness ==
    /\ pc = "done"
    /\ NoParagraphInGroup
    /\ \A i \in 1..Len(Paragraphs(text)) : Len(Paragraphs(text)[i]) <= 20
    /\ \E i \in 1..Len(Paragraphs(text)) : Len(Paragraphs(text)[i]) = 20
    /\ summary = TruncationFallback

\* C9 as stated: the same for every paragraph shorter than 30 characters
C9_Below30Truncated ==
    (/\ pc = "done"
     /\ \E i \in 1..Len(text) : ~IsSpace(text[i])
     /\ NoParagraphInGroup
     /\ \A i \in 1..Len(Paragraphs(text)) : Len(Paragraphs(text)[i]) < 30)
        => summary = TruncationFallback /\ EndsWithEllipsis(summary)

\* C10: the record's project and document type are never empty, and its
\* summary is not empty when the text is not blank
C10_FieldsNonEmpty ==
    pc = "done" =>
        /\ result.project # <<>>
        /\ doc_type # <<>>
        /\ SubSeq(result.keywords_field, 1, Len(doc_type) + 2) = doc_type \o <<59, 32>> (* "; " *)
        /\ (\E i \in 1..Len(text) : ~IsSpace(text[i])) => result.summary # <<>>

\* the explicit name came from a phrase of the content that is empty once
\* the version is stripped, and no section of the summary was filled
C10_Witness ==
    /\ pc = "done"
    /\ via = "content_pattern"
    /\ result.project = <<39033, 30446>> (* "项目" *)
    /\ StructuredParts(Paragraphs(text)) = <<>>
    /\ SimpleParts(Paragraphs(text)) = <<>>
    /\ result.summary # <<>>

\* C11 (as stated): the keyword cap is 2 for a text of length 150, 3 for a
\* text of length 600, and 28 for a text of length 25,000.
C11_CapThreeAt600 ==
    pc = "done" =>
        /\ counted_length = 150 => keywords_count = 2
        /\ counted_length = 600 => keywords_count = 3
        /\ counted_length = 25000 => keywords_count = 28

\* C11 (amended): the keyword cap is 2 for a text of length 150, 5 for a
\* text of length 600 (600 is not below 500, the end of the step of 3), and
\* 28 for a text of length 25,000.
C11_CapByLength ==
    pc = "done" =>
        /\ counted_length = 150 => keywords_count = 2
        /\ counted_length = 600 => keywords_count = 5
        /\ counted_length = 25000 => keywords_count = 28

C11_Witness ==
    pc = "done" /\ counted_length = 600 /\ keywords_count = 5

\* the extraction failures of extract_text_from_file: a suffix that is neither
\* .docx nor .txt, a .docx file without docx support, a file that cannot be read
ExtractionFails(f, has_docx) ==
    \/ Lower(f.suffix) \notin {<<46, 100, 111, 99, 120>> (* ".docx" *), <<46, 116, 120, 116>> (* ".txt" *)}
    \/ Lower(f.suffix) = <<46, 100, 111, 99, 120>> (* ".docx" *) /\ ~has_docx
    \/ ~f.readable

\* C12: a failure of text extraction is surfaced to the caller of
\* process_document as an error outcome: no record is produced for the file
\* (format_output is not called), so the outcome differs from the record of a
\* readable file of the same name.
C12_ExtractionFailureSurfaced ==
    (pc = "done" /\ ExtractionFails(file, HAS_DOCX)) =>
        /\ "format_output" \notin invoked
        /\ result = <<>>
        /\ result # ProcessText(document_types, project_keywords, HAS_JIEBA,
                                jieba_mode, file.stem, <<>>).result

\* the words of the seven domain buckets and of the three coarse vocabularies
VocabularyWords ==
    UNION {Range(domain_words[i].words) : i \in 1..Len(domain_words)}
        \cup Range(business_words) \cup Range(coarse_tech_words) \cup Range(mgmt_words)

\* no word of a vocabulary is in the title or the text
NoVocabularyWord ==
    \A w \in VocabularyWords : ~Contains(w, title) /\ ~Contains(w, text)

\* identify_project went through every step down to the end of the fallback:
\* no title tier (of either copy of the checks), no explicit name, no catalog
\* score of 3 or more, no vocabulary word
NothingMatches ==
    /\ pc = "done"
    /\ via = "inference"
    /\ InferTitleTiers(Lower(title)) = <<>>
    /\ NoVocabularyWord

\* C13 (as stated): when nothing matches the document, identify_project
\* returns a generic default that is "业务运营项目" or "组织管理项目".
C13_DefaultBusinessOrManagement ==
    NothingMatches => project \in {<<19994, 21153, 36816, 33829, 39033, 30446>> (* "业务运营项目" *), <<32452, 32455, 31649, 29702, 39033, 30446>> (* "组织管理项目" *)}

\* C13 (amended): when nothing matches the document, identify_project returns
\* the generic default "技术平台项目".
C13_DefaultTechPlatform ==
    NothingMatches => project = <<25216, 26415, 24179, 21488, 39033, 30446>> (* "技术平台项目" *)

C13_Witness ==
    NothingMatches /\ project = <<25216, 26415, 24179, 21488, 39033, 30446>> (* "技术平台项目" *) /\ text = <<97, 98, 99, 32, 100, 101, 102>> (* "abc def" *)

\* the key of a row: title, project, keywords field
RowKey(row) == <<row[1], row[2], row[3]>>

\* the data rows of the file, as csv.reader reads them
DataRows(csv) == [i \in 1..(Len(csv) - 1) |-> reader_row(csv[i + 1])]

\* C14: after any sequence of save_results_to_csv calls starting from an
\* absent file, no two data rows have the same key (title, project, keywords
\* field), and saving a batch whose records are all stored leaves the file
\* unchanged.
C14_NoTwoRowsOfOneKey ==
    csv_file # "absent" =>
        LET rows == DataRows(csv_file)
        IN  /\ \A i, j \in 1..Len(rows) : i # j => RowKey(rows[i]) # RowKey(rows[j])
            /\ \A batch \in Batches :
                (\A k \in 1..Len(batch) :
                    \E i \in 1..Len(rows) : RowKey(rows[i]) = RowKey(RecordRow(batch[k])))
                => save_results_to_csv(batch, csv_file) = csv_file

\* the entries process_directory supports: those named *.txt or *.docx
SupportedEntries ==
    {e \in directory.entries : EndsWith(EntryName(e), <<46, 116, 120, 116>> (* ".txt" *)) \/ EndsWith(EntryName(e), <<46, 100, 111, 99, 120>> (* ".docx" *))}

\* the place of an entry among the supported entries, by name
PlaceByName(e) ==
    1 + Cardinality({d \in SupportedEntries : StrLess(EntryName(d), EntryName(e))})

\* C15: process_directory returns exactly one record per supported
\* (.txt/.docx) file of the directory, in the order of the file names; for a
\* file whose processing raises, the record has project "处理失败" and the
\* error text, and every other file still has its own record.
C15_OneRecordPerFile ==
    (pc = "done" /\ directory.exists /\ directory.is_dir) =>
        /\ Len(results) = Cardinality(SupportedEntries)
        /\ \A e \in SupportedEntries :
            LET record == results[PlaceByName(e)]
            IN  /\ record.title = e.file.stem
                /\ IF e.raises # <<>>
                   THEN /\ record.project = <<22788, 29702, 22833, 36133>> (* "处理失败" *)
                        /\ record.summary = e.raises
                   ELSE record = EntryResult(document_types, project_keywords, HAS_DOCX,
                                             HAS_JIEBA, jieba_mode, e).result

\* three supported files, the first of which raises and the last of which is
\* classified
C15_Witness ==
    /\ pc = "done"
    /\ directory.exists /\ directory.is_dir
    /\ Len(results) = 3
    /\ results[1].project = <<22788, 29702, 22833, 36133>> (* "处理失败" *)
    /\ results[1].summary = <<98, 111, 111, 109>> (* "boom" *)
    /\ results[3].title = <<98>> (* "b" *)
    /\ results[3].project = <<32452, 32455, 31649, 29702, 39033, 30446>> (* "组织管理项目" *)

\* the standard names of the standardization table
StandardNames == {standardization_map[i].name : i \in 1..Len(standardization_map)}

\* C16: whenever the name comes from the content-pattern stage of
\* _extract_explicit_project_name, it is one of the standard names of the
\* standardization table; a candidate without a table entry is rejected.
C16_ContentNameIsStandard ==
    (pc = "done" /\ via = "content_pattern") => project \in StandardNames

\* _infer_project_from_content with its title checks removed: the domain
\* scores of the keywords, then the three coarse counts
InferWithoutTitleChecks(has_jieba, mode, t) ==
    LET kws == IF has_jieba THEN jieba_extract_tags(mode, t) ELSE SimpleKeywords(t)
        best == FirstMax(domain_scores(kws))
    IN  IF best.score > 0 THEN best.name ELSE CoarseProject(kws)

\* C17: the title checks repeated inside the content-inference fallback never
\* match when the fallback is reached from identify_project, so the result of
\* identify_project equals the result with those checks removed.
C17_FallbackTitleChecksIdle ==
    (pc = "done" /\ via = "inference") =>
        /\ InferTitleTiers(Lower(title)) = <<>>
        /\ project = InferWithoutTitleChecks(HAS_JIEBA, jieba_mode, CombinedText(text, title))

\* the keywords _infer_project_from_content works on
InferKeywords ==
    IF HAS_JIEBA THEN jieba_extract_tags(jieba_mode, text) ELSE SimpleKeywords(text)

\* C18: whenever _infer_project_from_content reaches the coarse three-count
\* fallback, the management count is 0, so the fallback never returns
\* "组织管理项目": it returns "技术平台项目" unless the business count exceeds the
\* tech count, and "业务运营项目" then.
C18_CoarseNeverManagement ==
    (pc = "done" /\ via = "coarse") =>
        /\ Hits(InferKeywords, mgmt_words) = 0
        /\ project # <<32452, 32455, 31649, 29702, 39033, 30446>> (* "组织管理项目" *)
        /\ project = IF Hits(InferKeywords, business_words) > Hits(InferKeywords, coarse_tech_words)
                     THEN <<19994, 21153, 36816, 33829, 39033, 30446>> (* "业务运营项目" *)
                     ELSE <<25216, 26415, 24179, 21488, 39033, 30446>> (* "技术平台项目" *)

\* the coarse fallback is reached with more business words than tech words
C18_Witness ==
    /\ pc = "done"
    /\ via = "coarse"
    /\ Hits(InferKeywords, business_words) > Hits(InferKeywords, coarse_tech_words)
    /\ Hits(InferKeywords, coarse_tech_words) > 0
    /\ project = <<19994, 21153, 36816, 33829, 39033, 30446>> (* "业务运营项目" *)

\* C19: the keywords field round-trips through main: for every document the
\* classifier produced a record for, the row main prints holds the document
\* type and exactly the keyword list the record was formatted from, so the
\* keyword count it reports is len(keywords), also for the empty list.
C19_KeywordsFieldRoundTrips ==
    (pc = "done" /\ directory.is_dir) =>
        LET files == files_to_process(directory.entries)
        IN  \A i \in 1..Len(results) :
                files[i].raises = <<>> =>
                    LET r == EntryResult(document_types, project_keywords, HAS_DOCX,
                                         HAS_JIEBA, jieba_mode, files[i])
                    IN  /\ reported[i].doc_type = r.doc_type
                        /\ reported[i].keywords = r.keywords
                        /\ reported[i].keyword_count = Len(r.keywords)

\* the files under new_dir, with their contents
NewDirFiles(fs) == {f \in fs.files : Len(f.path) > 1 /\ f.path[1] = <<110, 101, 119, 95, 100, 105, 114>> (* "new_dir" *)}

\* C20: after manage_project_structure and a first successful
\* move_documents_by_csv, running move_documents_by_csv again with the same
\* CSV completes without error (no file is copied onto itself) and leaves the
\* contents of new_dir unchanged.
C20_MoveRerunnable ==
    /\ pc = "move_documents_by_csv_again" =>
        \A reversed \in BOOLEAN :
            LET again == move_documents_by_csv(csv_file, tree, reversed)
            IN  /\ again.error = "none"
                /\ NewDirFiles(again.tree) = NewDirFiles(tree)
    /\ pc \in {"done", "failed"} => mover_error = "none"

=============================================================================
